---- MODULE Spec2Model ----
(***************************************************************************)
(* Points-and-redemption ledger of the referral program: rewards.js (the   *)
(* business logic), repository.js (the SQL statements), shopify-gateway.js *)
(* (discount issuance) and the users / user_actions tables.                *)
(*                                                                         *)
(* Every handler of rewards.js is an async function; each `await` of a     *)
(* repository or gateway call is one atomic step (one SQL statement, one   *)
(* collaborator call).  A request is a record with a program counter that  *)
(* names the await it is about to execute.  The sequential specification   *)
(* Spec runs every handler to completion in one action; SpecConc           *)
(* interleaves the steps of overlapping requests; SpecPure is one call of  *)
(* a utility function; SpecLedger interleaves MilestoneRedeem requests of  *)
(* a user with ten referrals; SpecDelivery delivers order notifications at *)
(* least once, a delivery failing at a rejected database statement.        *)
(***************************************************************************)
EXTENDS Integers, Sequences, FiniteSets, Bags, TLC

VARIABLES
  users,         \* table users: sequence of rows, user_id = position (SERIAL)
  user_actions,  \* table user_actions: sequence of rows in insertion order
  discounts,     \* the shop's discount codes minted so far (Shopify side)
  reqs,          \* bag of the requests issued, in flight or done (SpecConc)
  last,          \* the request completed by the most recent operation (Spec)
  nops,          \* number of operations issued so far
  seed,          \* the world of the initial state
  rt,            \* history of the latest successful Redeem: "redeemed" while no
                 \* other operation touched that user, "refunded" right after
                 \* a CancelRedeem refunded exactly its points
  call           \* a call of a pure utility function: its name, its arguments
                 \* and, once it has returned, its result (SpecPure)

vars == <<users, user_actions, discounts, reqs, last, nops, seed, rt, call>>

NULL == "NULL"                 \* SQL NULL / JS null of a text value
NullId == 0                    \* NULL discount_code_id
NullSpent == -1                \* NULL total_spent
NoUser == [user_id |-> 0]      \* rows[0] || null with no row
NoCode == [kind |-> "NULL"]    \* NULL last_discount_code
NoLedger == {}                 \* NULL referal_discount_code
NoRef == [kind |-> "NULL"]     \* NULL action_ref
NullTier == -1                 \* null of parseDiscountTierFromCode

(***************************************************************************)
(* Bounds of the model.                                                    *)
(***************************************************************************)
MaxOps == 2        \* operations issued in one behaviour of Spec
MaxReqs == 2       \* overlapping requests in one behaviour of SpecConc
MaxOrderCodes == 1 \* discount codes listed on one order

(***************************************************************************)
(* config.js                                                               *)
(***************************************************************************)
SIGNUP_POINTS == 5
REFERRER_SIGNUP_BONUS == 5
REFERRAL_BONUS_POINTS == 1500

\* faulty variant: every action is worth 5 points
ALLOWED_ACTIONS_flat == [social_media_follow |-> 5, share |-> 5]

\* ALLOWED_ACTIONS: action -> points.  Two of the eight configured entries
\* (one of each point value); "not_listed" stands for any other string.
ALLOWED_ACTIONS == [social_media_follow |-> 50, share |-> 5]

\* Property names that every object literal inherits from Object.prototype:
\* config.ALLOWED_ACTIONS[name] is a function (an object for __proto__)
ObjectPrototypeKeys ==
  {"constructor", "toString", "valueOf", "hasOwnProperty", "__proto__"}

\* action is a text of the request body
ActionInputs == {"social_media_follow", "share", "not_listed", "constructor"}

\* MILESTONE_REWARDS: referral count -> reward
MILESTONE_REWARDS == {5, 10, 15}

\* config.TIERS: ascending by minSpent.  minSpent is in dollars,
\* pointsPerDollar is the earning rate of the tier.
TIERS == << [name |-> "Bronze", minSpent |-> 0,   pointsPerDollar |-> 5],
            [name |-> "Silver", minSpent |-> 500, pointsPerDollar |-> 7] >>

(***************************************************************************)
(* Input domains.                                                          *)
(***************************************************************************)
Emails == {"a@x", "b@x"}
RefCodes == {"R1", "R2"}            \* values of generateReferralCode()
RedeemPoints == {5, 10}             \* pointsToRedeem / pointsToRefund
Dynamic == <<"d", "y", "n", "a", "m", "i", "c">>
RedeemValues == {Dynamic, <<"5">>}  \* redeemValue, as its characters
OrderTotals == {2050}               \* order total in cents ($20.50)
OrderIds == {1, 2}
TotalSpents == {0, 500}             \* getCustomerTotalSpent, in dollars

(***************************************************************************)
(* repository.js: the world is the record of the three stores.             *)
(***************************************************************************)
World == [users |-> users, user_actions |-> user_actions, discounts |-> discounts]

UserIds(w) == 1..Len(w.users)

\* rows[0] || null of a SELECT over users
FirstUser(w, S) == IF S = {} THEN NoUser
                   ELSE w.users[CHOOSE i \in S : \A j \in S : i <= j]

\* faulty variant: the WHERE clause is missing
findUserByEmail_anyRow(w, email) == FirstUser(w, UserIds(w))

findUserByEmail(w, email) ==
  FirstUser(w, {i \in UserIds(w) : w.users[i].email = email})

findUserByReferralCode(w, referralCode) ==
  FirstUser(w, {i \in UserIds(w) : w.users[i].referral_code = referralCode})

findUserByDiscountCode(w, discountCode) ==
  FirstUser(w, {i \in UserIds(w) : w.users[i].last_discount_code = discountCode})

findUserByEmailAndDiscountCode(w, email, discountCode) ==
  FirstUser(w, {i \in UserIds(w) : /\ w.users[i].email = email
                                   /\ w.users[i].last_discount_code = discountCode})

\* faulty variant: referral_code is not declared UNIQUE
UniqueViolation_emailOnly(w, email, referralCode) ==
  \E i \in UserIds(w) : w.users[i].email = email

\* The UNIQUE constraints of users (email, referral_code): error 23505
UniqueViolation(w, email, referralCode) ==
  \E i \in UserIds(w) : \/ w.users[i].email = email
                        \/ w.users[i].referral_code = referralCode

\* referred_by VARCHAR(50): a longer value is refused with error 22001
ValueTooLong(referredBy) == referredBy # NULL /\ Len(referredBy) > 50

\* INSERT INTO users ... ; the other columns take their defaults
createUser(w, email, points, referralCode, referredBy) ==
  [w EXCEPT !.users = Append(@,
     [user_id |-> Len(w.users) + 1,
      email |-> email,
      points |-> points,
      referral_code |-> referralCode,
      referred_by |-> referredBy,
      last_discount_code |-> NoCode,
      discount_code_id |-> NullId,
      referral_count |-> 0,
      referal_discount_code |-> NoLedger,
      tier |-> NULL,
      total_spent |-> NullSpent])]

\* UPDATE users SET ... WHERE <P(row)>
UpdateUsers(w, P(_), F(_)) ==
  [w EXCEPT !.users = [i \in UserIds(w) |->
                         IF P(w.users[i]) THEN F(w.users[i]) ELSE w.users[i]]]

\* faulty variant: SET points = points + $1
updateUserPoints_relative(w, email, newPoints) ==
  UpdateUsers(w, LAMBDA u : u.email = email,
              LAMBDA u : [u EXCEPT !.points = u.points + newPoints])

updateUserPoints(w, email, newPoints) ==
  LET P(u) == u.email = email
      F(u) == [u EXCEPT !.points = newPoints]
  IN UpdateUsers(w, P, F)

\* faulty variant: the two query parameters are passed in the other order
updateUserPointsById_swapped(w, userId, newPoints) ==
  UpdateUsers(w, LAMBDA u : u.user_id = newPoints,
              LAMBDA u : [u EXCEPT !.points = userId])

updateUserPointsById(w, userId, newPoints) ==
  LET P(u) == u.user_id = userId
      F(u) == [u EXCEPT !.points = newPoints]
  IN UpdateUsers(w, P, F)

addPointsByReferralCode(w, referralCode, pointsToAdd) ==
  LET P(u) == u.referral_code = referralCode
      F(u) == [u EXCEPT !.points = @ + pointsToAdd]
  IN UpdateUsers(w, P, F)

\* faulty variant: ... WHERE user_id = $4 AND last_discount_code IS NULL
updateUserDiscountCode_ifEmpty(w, userId, discountCode, discountId, newPoints) ==
  UpdateUsers(w, LAMBDA u : u.user_id = userId /\ u.last_discount_code = NoCode,
              LAMBDA u : [u EXCEPT !.last_discount_code = discountCode,
                                   !.discount_code_id = discountId,
                                   !.points = newPoints])

updateUserDiscountCode(w, userId, discountCode, discountId, newPoints) ==
  LET P(u) == u.user_id = userId
      F(u) == [u EXCEPT !.last_discount_code = discountCode,
                        !.discount_code_id = discountId,
                        !.points = newPoints]
  IN UpdateUsers(w, P, F)

\* faulty variant: discount_code_id is left in place
clearUserDiscountCode_codeOnly(w, email) ==
  UpdateUsers(w, LAMBDA u : u.email = email,
              LAMBDA u : [u EXCEPT !.last_discount_code = NoCode])

clearUserDiscountCode(w, email) ==
  LET P(u) == u.email = email
      F(u) == [u EXCEPT !.last_discount_code = NoCode, !.discount_code_id = NullId]
  IN UpdateUsers(w, P, F)

\* faulty variant: the WHERE clause is missing
clearUserDiscountCodeById_everyone(w, userId) ==
  UpdateUsers(w, LAMBDA u : TRUE,
              LAMBDA u : [u EXCEPT !.last_discount_code = NoCode,
                                   !.discount_code_id = NullId])

clearUserDiscountCodeById(w, userId) ==
  LET P(u) == u.user_id = userId
      F(u) == [u EXCEPT !.last_discount_code = NoCode, !.discount_code_id = NullId]
  IN UpdateUsers(w, P, F)

\* faulty variant: SET referral_count = COALESCE(referral_count, 0)
incrementReferralCount_coalesceOnly(w, userId) == w

\* faulty variant: the WHERE clause is missing
incrementReferralCount_everyone(w, userId) ==
  UpdateUsers(w, LAMBDA u : TRUE,
              LAMBDA u : [u EXCEPT !.referral_count = @ + 1])

incrementReferralCount(w, userId) ==
  LET P(u) == u.user_id = userId
      F(u) == [u EXCEPT !.referral_count = @ + 1]
  IN UpdateUsers(w, P, F)

\* faulty variant: the ledger is written to last_discount_code
updateMilestoneDiscountCodes_slot(w, userId, redeemedMilestonesJson) ==
  UpdateUsers(w, LAMBDA u : u.user_id = userId,
              LAMBDA u : [u EXCEPT !.last_discount_code =
                            [kind |-> "MILESTONEFREE", value |-> 0,
                             id |-> Len(w.discounts)]])

updateMilestoneDiscountCodes(w, userId, redeemedMilestonesJson) ==
  LET P(u) == u.user_id = userId
      F(u) == [u EXCEPT !.referal_discount_code = redeemedMilestonesJson]
  IN UpdateUsers(w, P, F)

\* The columns tier and total_spent are later than neon_schema.sql
updateUserTier(w, userId, tier, totalSpent) ==
  LET P(u) == u.user_id = userId
      F(u) == [u EXCEPT !.tier = tier, !.total_spent = totalSpent]
  IN UpdateUsers(w, P, F)

ActionIds(w) == 1..Len(w.user_actions)

\* faulty variant: the action_type = $2 clause is missing
findActionByUserAndType_anyType(w, userId, actionType) ==
  {i \in ActionIds(w) : w.user_actions[i].user_id = userId}

findActionByUserAndType(w, userId, actionType) ==
  {i \in ActionIds(w) : /\ w.user_actions[i].user_id = userId
                        /\ w.user_actions[i].action_type = actionType}

\* faulty variant: the user_id = $1 clause is missing
findActionByUserAndRef_anyUser(w, userId, actionRef) ==
  {i \in ActionIds(w) : w.user_actions[i].action_ref = actionRef}

findActionByUserAndRef(w, userId, actionRef) ==
  {i \in ActionIds(w) : /\ w.user_actions[i].user_id = userId
                        /\ w.user_actions[i].action_ref = actionRef}

PurchaseTypes == {"purchase", "test_purchase", "shopify_purchase"}

\* faulty variant: only action_type = 'purchase' is looked for
findPurchaseActions_purchaseOnly(w, userId) ==
  {i \in ActionIds(w) : /\ w.user_actions[i].user_id = userId
                        /\ w.user_actions[i].action_type = "purchase"}

findPurchaseActions(w, userId) ==
  {i \in ActionIds(w) : /\ w.user_actions[i].user_id = userId
                        /\ w.user_actions[i].action_type \in PurchaseTypes}

\* faulty variant: INSERT ... ON CONFLICT DO NOTHING over (user, type, ref)
createAction_onConflictDoNothing(w, userId, actionType, pointsAwarded, actionRef) ==
  IF \E i \in 1..Len(w.user_actions) :
       /\ w.user_actions[i].user_id = userId
       /\ w.user_actions[i].action_type = actionType
       /\ w.user_actions[i].action_ref = actionRef
  THEN w
  ELSE [w EXCEPT !.user_actions = Append(@,
          [user_id |-> userId, action_type |-> actionType,
           points_awarded |-> pointsAwarded, action_ref |-> actionRef])]

\* faulty variant: the user's row of the same type is updated in place
createAction_upsert(w, userId, actionType, pointsAwarded, actionRef) ==
  LET row == [user_id |-> userId, action_type |-> actionType,
              points_awarded |-> pointsAwarded, action_ref |-> actionRef]
      same == {i \in 1..Len(w.user_actions) :
                 /\ w.user_actions[i].user_id = userId
                 /\ w.user_actions[i].action_type = actionType}
  IN IF same = {} THEN [w EXCEPT !.user_actions = Append(@, row)]
     ELSE [w EXCEPT !.user_actions =
             [i \in 1..Len(@) |-> IF i \in same THEN row ELSE @[i]]]

createAction(w, userId, actionType, pointsAwarded, actionRef) ==
  [w EXCEPT !.user_actions = Append(@,
     [user_id |-> userId, action_type |-> actionType,
      points_awarded |-> pointsAwarded, action_ref |-> actionRef])]

(***************************************************************************)
(* shopify-gateway.js                                                      *)
(***************************************************************************)
Digit == [c \in {"0", "1", "2", "3", "4", "5", "6", "7", "8", "9"} |->
            CASE c = "0" -> 0 [] c = "1" -> 1 [] c = "2" -> 2 [] c = "3" -> 3
              [] c = "4" -> 4 [] c = "5" -> 5 [] c = "6" -> 6 [] c = "7" -> 7
              [] c = "8" -> 8 [] c = "9" -> 9]

IsDigit(c) == c \in DOMAIN Digit

\* parseFloat of a string of digits; the empty string gives NaN, here -1
RECURSIVE ParseDigits(_)
ParseDigits(str) ==
  IF str = <<>> THEN -1
  ELSE IF Len(str) = 1 THEN Digit[str[1]]
  ELSE 10 * ParseDigits(SubSeq(str, 1, Len(str) - 1)) + Digit[str[Len(str)]]

\* numericValue of createDiscountCode, in cents: the dollar amount the code
\* carries between POINTS and CAD_.
\*   'dynamic'  -> (pointsToRedeem / 100).toFixed(2)
\*   otherwise  -> parseFloat(String(amountOff).replace(/\D/g, '')) || 5
numericValue(amountOff, pointsToRedeem) ==
  IF amountOff = Dynamic THEN pointsToRedeem
  ELSE LET n == ParseDigits(SelectSeq(amountOff, IsDigit))
       IN IF n <= 0 THEN 5 * 100 ELSE n * 100

\* The code string POINTS<value>CAD_<suffix> / MILESTONEFREE_<suffix>; the
\* suffix is random, the shop keeps codes distinct: id is the serial of the
\* discount in the shop and identifies the suffix.
generatedCode(w, amountOff, pointsToRedeem, rewardType) ==
  IF rewardType = "free_product"
  THEN [kind |-> "MILESTONEFREE", value |-> 0, id |-> Len(w.discounts) + 1]
  ELSE [kind |-> "POINTS", value |-> numericValue(amountOff, pointsToRedeem),
        id |-> Len(w.discounts) + 1]

\* createDiscountCode when the shop accepts the mutation: the discount exists
\* in the shop, active.  (A failure throws and leaves the shop unchanged.)
createDiscountCode(w, amountOff, pointsToRedeem, rewardType) ==
  [w EXCEPT !.discounts =
     Append(@, [code |-> generatedCode(w, amountOff, pointsToRedeem, rewardType),
                active |-> TRUE])]

\* { code, discountId } returned by the createDiscountCode above
lastDiscount(w) == w.discounts[Len(w.discounts)].code

\* deactivateDiscount when the shop accepts the update
deactivateDiscount(w, discountId) ==
  [w EXCEPT !.discounts = [i \in 1..Len(w.discounts) |->
                             IF i = discountId THEN [@[i] EXCEPT !.active = FALSE]
                             ELSE @[i]]]

(***************************************************************************)
(* rewards.js: utilities                                                   *)
(***************************************************************************)
\* tiers[0] of an empty array
Undefined == [name |-> "undefined"]

\* faulty variant: the loop runs upwards, for (i = 0; i < tiers.length; i++)
getTierForSpentIn_upwards(tiers, totalSpent) ==
  LET ok == {i \in 1..Len(tiers) : totalSpent >= tiers[i].minSpent}
  IN IF ok = {} THEN (IF tiers = <<>> THEN Undefined ELSE tiers[1])
     ELSE tiers[CHOOSE i \in ok : \A j \in ok : i <= j]

\* getTierForSpent with tiers = config.TIERS as a parameter:
\* for (i = tiers.length - 1; i >= 0; i--) if (totalSpent >= tiers[i].minSpent)
\*   return tiers[i];
\* return tiers[0];
getTierForSpentIn(tiers, totalSpent) ==
  LET ok == {i \in 1..Len(tiers) : totalSpent >= tiers[i].minSpent}
  IN IF ok = {} THEN (IF tiers = <<>> THEN Undefined ELSE tiers[1])
     ELSE tiers[CHOOSE i \in ok : \A j \in ok : j <= i]

getTierForSpent(totalSpent) == getTierForSpentIn(TIERS, totalSpent)

\* Math.floor(orderTotal * tier.pointsPerDollar); orderTotal is in cents
\* faulty variant: Math.round
calculatePointsForPurchase_round(orderTotal, totalSpent) ==
  (orderTotal * getTierForSpent(totalSpent).pointsPerDollar + 50) \div 100

calculatePointsForPurchase(orderTotal, totalSpent) ==
  (orderTotal * getTierForSpent(totalSpent).pointsPerDollar) \div 100

\* code.match(/POINTS(\d+(?:\.\d+)?)CAD_/) -> dollarValue * 100, else null,
\* for a minted code: kind POINTS stands for the text POINTS<value/100>CAD_...,
\* value being the hundredths of a dollar.  (parseDiscountTierFromText below
\* is the function on the text itself.)
parseDiscountTierFromCode(code) ==
  IF code.kind = "POINTS" THEN code.value ELSE NullTier

\* faulty variant: the marker is never written
Truthy_never(n) == FALSE

\* if (usedTier): null and 0 are falsy
Truthy(n) == n # NullTier /\ n # 0

\* code.startsWith('POINTS') || code.startsWith('MILESTONEFREE_')
IsRewardCode(code) == code.kind \in {"POINTS", "MILESTONEFREE"}

(***************************************************************************)
(* rewards.js: parseDiscountTierFromCode on the text of a code.  A text is *)
(* the sequence of its characters; a number is the record of the integer   *)
(* it is nearest to and of its distance from it in units in the last       *)
(* place of a double (0 for the integer itself).                           *)
(***************************************************************************)
T_POINTS == <<"P", "O", "I", "N", "T", "S">>
T_CAD == <<"C", "A", "D", "_">>

\* the n characters of text from position from on, <<>> when it is shorter
Chars(text, from, n) ==
  IF from + n - 1 <= Len(text) THEN SubSeq(text, from, from + n - 1) ELSE <<>>

\* the length of the run of digits that starts at position p
RECURSIVE DigitRun(_, _)
DigitRun(text, p) ==
  IF p <= Len(text) /\ IsDigit(text[p]) THEN 1 + DigitRun(text, p + 1) ELSE 0

NoMatch == <<>>

\* /POINTS(\d+(?:\.\d+)?)CAD_/ tried at position p: the captured group as
\* <<integer digits, fraction digits>>, or NoMatch.  \d+ is greedy, and a
\* shorter run of digits is followed by a digit, never by '.' or 'C': the
\* greedy attempt decides the match.
MatchAt(text, p) ==
  LET i == p + 6
      n == DigitRun(text, i)
      j == i + n
      m == IF j <= Len(text) /\ text[j] = "." THEN DigitRun(text, j + 1) ELSE 0
      k == IF m > 0 THEN j + 1 + m ELSE j
  IN IF /\ Chars(text, p, 6) = T_POINTS
        /\ n > 0
        /\ Chars(text, k, 4) = T_CAD
     THEN <<SubSeq(text, i, j - 1),
            IF m > 0 THEN SubSeq(text, j + 1, j + m) ELSE <<>> >>
     ELSE NoMatch

\* code.match(...): the leftmost match
tierMatch(text) ==
  LET ps == {p \in 1..Len(text) : MatchAt(text, p) # NoMatch}
  IN IF ps = {} THEN NoMatch
     ELSE MatchAt(text, CHOOSE p \in ps : \A q \in ps : p <= q)

\* parseFloat(tierMatch[1]), in hundredths (the texts here carry at most two
\* decimals)
Hundredths(group) ==
  100 * ParseDigits(group[1])
    + (CASE Len(group[2]) = 0 -> 0
         [] Len(group[2]) = 1 -> 10 * ParseDigits(group[2])
         [] Len(group[2]) = 2 -> ParseDigits(group[2]))

\* dollarValue * 100 is a product of IEEE-754 doubles.  Of the values n/100
\* with n < 200, the product is the double next above n for n in RoundedUp
\* (0.07 * 100 = 7.000000000000001), the double next below n for n in
\* RoundedDown (0.29 * 100 = 28.999999999999996) and n itself for the others;
\* 5 * 100, 12.5 * 100 and 15 * 100 are exact.
RoundedUp == {7, 14, 28, 55, 56, 109, 110, 111, 112}
RoundedDown == {29, 57, 58, 113, 114, 115, 116}

Times100(hundredths) ==
  [points |-> hundredths,
   ulps |-> IF hundredths \in RoundedUp THEN 1
            ELSE IF hundredths \in RoundedDown THEN 0 - 1 ELSE 0]

Null == [null |-> TRUE]

parseDiscountTierFromText(code) ==
  IF tierMatch(code) = NoMatch THEN Null
  ELSE Times100(Hundredths(tierMatch(code)))

(***************************************************************************)
(* Requests.  pc names the await the handler executes next; "start" is the *)
(* synchronous code before the first await, "done" a returned or thrown    *)
(* handler.  a holds the arguments and the outcomes the collaborators will *)
(* give (fail: discount creation is refused; deactFail: deactivation       *)
(* throws; totalSpent: the amount the shop reports).                       *)
(***************************************************************************)
Pending == [status |-> "pending"]

NewReq(op, a) ==
  [op |-> op, pc |-> "start", a |-> a, user |-> NoUser, other |-> NoUser,
   newPoints |-> 0, pointsToAdd |-> 0, code |-> NoCode, first |-> FALSE,
   k |-> 0, res |-> Pending]

NoReq == [op |-> "none", pc |-> "done", res |-> Pending]

Goto(w, r, pc) == [w |-> w, r |-> [r EXCEPT !.pc = pc]]

\* throw new Error(message)
Throw(w, r, message) ==
  [w |-> w, r |-> [r EXCEPT !.pc = "done",
                            !.res = [status |-> "error", error |-> message]]]

\* return value
Return(w, r, value) == [w |-> w, r |-> [r EXCEPT !.pc = "done", !.res = value]]

\* faulty variant: the error is thrown on
catchAndLog_rethrow(threw, thrown, continued) ==
  IF threw THEN thrown ELSE continued

\* try { await collaborator } catch (err) { console.error(...) }: the handler
\* continues whether the call threw or not
catchAndLog(threw, thrown, continued) == continued

(***************************************************************************)
(* rewards.js: processSignup                                               *)
(* klaviyo.subscribeToList is not awaited and its rejection is only        *)
(* logged: it touches none of the stores and has no step here.             *)
(***************************************************************************)
SignupResult(r, welcomeDiscountCode) ==
  [status |-> "ok", userId |-> r.user.user_id, points |-> SIGNUP_POINTS,
   referralCode |-> r.a.referralCode, welcomeDiscountCode |-> welcomeDiscountCode]

processSignup(w, r) ==
  CASE r.pc = "start" ->
         Goto(w, r, IF r.a.referredBy # NULL THEN "findUserByReferralCode"
                    ELSE "createUser")
    [] r.pc = "findUserByReferralCode" ->
         Goto(w, r, IF findUserByReferralCode(w, r.a.referredBy) # NoUser
                    THEN "addPointsByReferralCode" ELSE "createUser")
    [] r.pc = "addPointsByReferralCode" ->
         Goto(addPointsByReferralCode(w, r.a.referredBy, REFERRER_SIGNUP_BONUS),
              r, "createUser")
    [] r.pc = "createUser" ->
         IF ValueTooLong(r.a.referredBy)
         THEN Throw(w, r, "22001")
         ELSE IF UniqueViolation(w, r.a.email, r.a.referralCode)
         THEN Throw(w, r, "23505")
         ELSE LET w2 == createUser(w, r.a.email, SIGNUP_POINTS, r.a.referralCode,
                                   r.a.referredBy)
                  r2 == [r EXCEPT !.user = [user_id |-> Len(w2.users)]]
              IN IF r.a.referredBy # NULL
                 THEN Goto(w2, r2, "createDiscountCode")
                 ELSE Return(w2, r2, SignupResult(r2, NoCode))
    [] r.pc = "createDiscountCode" ->
         catchAndLog(r.a.fail, Throw(w, r, "Failed to create discount code"),
           IF r.a.fail
           THEN Return(w, r, SignupResult(r, NoCode))
           ELSE LET w2 == createDiscountCode(w, <<"1", "5">>, 0, "fixed_amount")
                IN Return(w2, r, SignupResult(r, lastDiscount(w2))))

(***************************************************************************)
(* rewards.js: processAwardPoints                                          *)
(***************************************************************************)
\* config.ALLOWED_ACTIONS[action] is truthy: a configured entry, or a property
\* inherited from Object.prototype
IsAllowedAction(action) ==
  action \in DOMAIN ALLOWED_ACTIONS \/ action \in ObjectPrototypeKeys

\* pointsToAdd is then a function or an object and user.points + pointsToAdd
\* a text
Inherited(action) == action \in ObjectPrototypeKeys \ DOMAIN ALLOWED_ACTIONS

processAwardPoints(w, r) ==
  CASE r.pc = "start" ->
         IF ~IsAllowedAction(r.a.action)
         THEN Throw(w, r, "Invalid action type")
         ELSE Goto(w, r, "findUserByEmail")
    [] r.pc = "findUserByEmail" ->
         LET user == findUserByEmail(w, r.a.email)
         IN IF user = NoUser THEN Throw(w, r, "User not found")
            ELSE Goto(w, [r EXCEPT !.user = user], "findActionByUserAndType")
    [] r.pc = "findActionByUserAndType" ->
         IF findActionByUserAndType(w, r.user.user_id, r.a.action) # {}
         THEN Throw(w, r, "Points already claimed for this action")
         ELSE IF Inherited(r.a.action)
         THEN Goto(w, r, "updateUserPoints")
         ELSE Goto(w, [r EXCEPT !.pointsToAdd = ALLOWED_ACTIONS[r.a.action],
                                !.newPoints = r.user.points
                                                + ALLOWED_ACTIONS[r.a.action]],
                   "updateUserPoints")
    [] r.pc = "updateUserPoints" ->
         \* points = $1 with a text that is no integer: error 22P02
         IF Inherited(r.a.action) THEN Throw(w, r, "22P02")
         ELSE Goto(updateUserPoints(w, r.a.email, r.newPoints), r, "createAction")
    [] r.pc = "createAction" ->
         Return(createAction(w, r.user.user_id, r.a.action, r.pointsToAdd, NoRef),
                r, [status |-> "ok", pointsAwarded |-> r.pointsToAdd,
                    newPoints |-> r.newPoints])

(***************************************************************************)
(* rewards.js: processRedeem                                               *)
(***************************************************************************)
\* faulty variant: the balance check is missing
NotEnoughPoints_unchecked(user, pointsToRedeem) == FALSE

\* faulty variant: only an empty balance is refused
NotEnoughPoints_emptyOnly(user, pointsToRedeem) == user.points <= 0

\* if (user.points < pointsToRedeem) throw
NotEnoughPoints(user, pointsToRedeem) == user.points < pointsToRedeem

processRedeem(w, r) ==
  CASE r.pc = "start" -> Goto(w, r, "findUserByEmail")
    [] r.pc = "findUserByEmail" ->
         LET user == findUserByEmail(w, r.a.email)
         IN IF user = NoUser THEN Throw(w, r, "User not found")
            ELSE IF NotEnoughPoints(user, r.a.pointsToRedeem)
            THEN Throw(w, r, "Not enough points to redeem")
            ELSE Goto(w, [r EXCEPT !.user = user,
                                   !.newPoints = user.points - r.a.pointsToRedeem],
                      "updateUserPointsById")
    [] r.pc = "updateUserPointsById" ->
         Goto(updateUserPointsById(w, r.user.user_id, r.newPoints), r,
              "createAction")
    [] r.pc = "createAction" ->
         Goto(createAction(w, r.user.user_id, "redeem-discount",
                           0 - r.a.pointsToRedeem, NoRef),
              r, "createDiscountCode")
    [] r.pc = "createDiscountCode" ->
         IF r.a.fail
         THEN Throw(w, r, "Failed to create discount code")
         ELSE LET w2 == createDiscountCode(w, r.a.redeemValue, r.a.pointsToRedeem,
                                           "fixed_amount")
              IN Goto(w2, [r EXCEPT !.code = lastDiscount(w2)],
                      "updateUserDiscountCode")
    [] r.pc = "updateUserDiscountCode" ->
         Return(updateUserDiscountCode(w, r.user.user_id, r.code, r.code.id,
                                       r.newPoints),
                r, [status |-> "ok", discountCode |-> r.code,
                    newPoints |-> r.newPoints])

(***************************************************************************)
(* rewards.js: processCancelRedeem                                         *)
(***************************************************************************)
\* await shopify.deactivateDiscount(id): the discount is expired unless the
\* call throws
tryDeactivate(w, discountId, throws) ==
  IF throws THEN w ELSE deactivateDiscount(w, discountId)

\* faulty variant: the check of the slot is missing
NoActiveDiscount_unchecked(user) == FALSE

\* if (!user.last_discount_code) throw
NoActiveDiscount(user) == user.last_discount_code = NoCode

processCancelRedeem(w, r) ==
  CASE r.pc = "start" -> Goto(w, r, "findUserByEmail")
    [] r.pc = "findUserByEmail" ->
         LET user == findUserByEmail(w, r.a.email)
         IN IF user = NoUser THEN Throw(w, r, "User not found")
            ELSE IF NoActiveDiscount(user)
            THEN Throw(w, r, "No active discount to cancel")
            ELSE Goto(w, [r EXCEPT !.user = user,
                                   \* parseInt(pointsToRefund, 10): the
                                   \* amounts here are integers
                                   !.newPoints = user.points + r.a.pointsToRefund],
                      IF user.discount_code_id # NullId THEN "deactivateDiscount"
                      ELSE "updateUserPoints")
    [] r.pc = "deactivateDiscount" ->
         catchAndLog(r.a.deactFail, Throw(w, r, "Failed to deactivate discount"),
           Goto(tryDeactivate(w, r.user.discount_code_id, r.a.deactFail), r,
                "updateUserPoints"))
    [] r.pc = "updateUserPoints" ->
         Goto(updateUserPoints(w, r.a.email, r.newPoints), r,
              "clearUserDiscountCode")
    [] r.pc = "clearUserDiscountCode" ->
         Return(clearUserDiscountCode(w, r.a.email), r,
                [status |-> "ok", newPoints |-> r.newPoints])

(***************************************************************************)
(* rewards.js: processMarkDiscountUsed                                     *)
(***************************************************************************)
processMarkDiscountUsed(w, r) ==
  CASE r.pc = "start" -> Goto(w, r, "findUserByEmailAndDiscountCode")
    [] r.pc = "findUserByEmailAndDiscountCode" ->
         LET user == findUserByEmailAndDiscountCode(w, r.a.email, r.a.usedCode)
         IN IF user = NoUser THEN Throw(w, r, "User with that code not found")
            ELSE Goto(w, [r EXCEPT !.user = user], "clearUserDiscountCode")
    [] r.pc = "clearUserDiscountCode" ->
         LET w2 == clearUserDiscountCode(w, r.a.email)
         IN IF r.user.discount_code_id # NullId
            THEN Goto(w2, r, "deactivateDiscount")
            ELSE Return(w2, r, [status |-> "ok"])
    [] r.pc = "deactivateDiscount" ->
         catchAndLog(r.a.deactFail, Throw(w, r, "Failed to deactivate discount"),
           Return(tryDeactivate(w, r.user.discount_code_id, r.a.deactFail), r,
                  [status |-> "ok"]))

(***************************************************************************)
(* rewards.js: processPurchase, processUsedDiscountCode,                   *)
(* processFirstPurchaseReferralBonus                                       *)
(***************************************************************************)
OrderRef(orderId) == [kind |-> "order", order |-> orderId]
ReferralRef(userId, orderId) ==
  [kind |-> "referral", user |-> userId, order |-> orderId]
TierRef(usedTier) == [kind |-> "tier", points |-> usedTier]

PurchaseResult(r, referrerBonus) ==
  [status |-> "ok", pointsAwarded |-> r.pointsToAdd, newPoints |-> r.newPoints,
   isFirstPurchase |-> r.first, referrerBonus |-> referrerBonus]

\* if (isFirstPurchase) referrerBonus = await processFirstPurchaseReferralBonus;
\* the function returns null before its first await when user.referred_by is
\* not set.
AfterDiscountCodes(w, r) ==
  IF r.first /\ r.user.referred_by # NULL
  THEN Goto(w, r, "bonus.findUserByReferralCode")
  ELSE Return(w, r, PurchaseResult(r, FALSE))

\* for (const discount of discountCodes): continue with the first code at
\* position >= k that starts with POINTS or MILESTONEFREE_
NextDiscountCode(w, r, k) ==
  LET ks == {i \in k..Len(r.a.discountCodes) : IsRewardCode(r.a.discountCodes[i])}
  IN IF ks = {} THEN AfterDiscountCodes(w, r)
     ELSE Goto(w, [r EXCEPT !.k = CHOOSE i \in ks : \A j \in ks : i <= j],
               "used.findUserByDiscountCode")

processUsedDiscountCode(w, r) ==
  LET code == r.a.discountCodes[r.k]
      usedTier == parseDiscountTierFromCode(code)
  IN CASE r.pc = "used.findUserByDiscountCode" ->
            LET discountUser == findUserByDiscountCode(w, code)
            IN IF discountUser = NoUser THEN NextDiscountCode(w, r, r.k + 1)
               ELSE Goto(w, [r EXCEPT !.other = discountUser],
                         "used.clearUserDiscountCodeById")
       [] r.pc = "used.clearUserDiscountCodeById" ->
            LET w2 == clearUserDiscountCodeById(w, r.other.user_id)
            IN IF Truthy(usedTier) THEN Goto(w2, r, "used.createAction")
               ELSE NextDiscountCode(w2, r, r.k + 1)
       [] r.pc = "used.createAction" ->
            NextDiscountCode(createAction(w, r.other.user_id, "discount_tier_used",
                                          0, TierRef(usedTier)),
                             r, r.k + 1)

processFirstPurchaseReferralBonus(w, r) ==
  CASE r.pc = "bonus.findUserByReferralCode" ->
         LET referrer == findUserByReferralCode(w, r.user.referred_by)
         IN IF referrer = NoUser THEN Return(w, r, PurchaseResult(r, FALSE))
            ELSE Goto(w, [r EXCEPT !.other = referrer],
                      "bonus.updateUserPointsById")
    [] r.pc = "bonus.updateUserPointsById" ->
         Goto(updateUserPointsById(w, r.other.user_id,
                                   r.other.points + REFERRAL_BONUS_POINTS),
              r, "bonus.incrementReferralCount")
    [] r.pc = "bonus.incrementReferralCount" ->
         Goto(incrementReferralCount(w, r.other.user_id), r, "bonus.createAction")
    [] r.pc = "bonus.createAction" ->
         Return(createAction(w, r.other.user_id, "referral_first_purchase_bonus",
                             REFERRAL_BONUS_POINTS,
                             ReferralRef(r.user.user_id, r.a.orderId)),
                r, PurchaseResult(r, TRUE))

Skipped(reason) == [status |-> "skipped", reason |-> reason]

processPurchase(w, r) ==
  CASE r.pc = "start" -> Goto(w, r, "findUserByEmail")
    [] r.pc = "findUserByEmail" ->
         LET user == findUserByEmail(w, r.a.email)
         IN IF user = NoUser
            THEN Return(w, r, Skipped("User not in referral program"))
            ELSE Goto(w, [r EXCEPT !.user = user], "findActionByUserAndRef")
    [] r.pc = "findActionByUserAndRef" ->
         IF findActionByUserAndRef(w, r.user.user_id, OrderRef(r.a.orderId)) # {}
         THEN Return(w, r, Skipped("Order already processed"))
         ELSE Goto(w, r, "findPurchaseActions")
    [] r.pc = "findPurchaseActions" ->
         Goto(w, [r EXCEPT !.first = (findPurchaseActions(w, r.user.user_id) = {})],
              "getCustomerTotalSpent")
    [] r.pc = "getCustomerTotalSpent" ->
         Goto(w, [r EXCEPT
                    !.pointsToAdd = calculatePointsForPurchase(r.a.orderTotal,
                                                               r.a.totalSpent),
                    !.newPoints = r.user.points
                                    + calculatePointsForPurchase(r.a.orderTotal,
                                                                 r.a.totalSpent)],
              "updateUserTier")
    [] r.pc = "updateUserTier" ->
         Goto(updateUserTier(w, r.user.user_id,
                             getTierForSpent(r.a.totalSpent).name, r.a.totalSpent),
              r, "updateUserPoints")
    [] r.pc = "updateUserPoints" ->
         Goto(updateUserPoints(w, r.a.email, r.newPoints), r, "createAction")
    [] r.pc = "createAction" ->
         NextDiscountCode(createAction(w, r.user.user_id, "shopify_purchase",
                                       r.pointsToAdd, OrderRef(r.a.orderId)),
                          r, 1)
    [] r.pc \in {"used.findUserByDiscountCode", "used.clearUserDiscountCodeById",
                 "used.createAction"} ->
         processUsedDiscountCode(w, r)
    [] r.pc \in {"bonus.findUserByReferralCode", "bonus.updateUserPointsById",
                 "bonus.incrementReferralCount", "bonus.createAction"} ->
         processFirstPurchaseReferralBonus(w, r)

(***************************************************************************)
(* rewards.js: processMilestoneRedeem                                      *)
(* referal_discount_code holds JSON.stringify of an object threshold ->    *)
(* code: here the set of its <<threshold, code>> entries.                  *)
(***************************************************************************)
\* `You need ${milestonePoints} referrals to unlock this reward`
NeedReferrals(milestonePoints) ==
  CASE milestonePoints = 5 -> "You need 5 referrals to unlock this reward"
    [] milestonePoints = 10 -> "You need 10 referrals to unlock this reward"
    [] milestonePoints = 15 -> "You need 15 referrals to unlock this reward"

\* milestonePoints is a value of the request body: a number, or a text.  A
\* text that is a property name inherited from Object.prototype
\* ("constructor") is no number; it is written InheritedName here.
InheritedName == 0 - 1

\* config.MILESTONE_REWARDS[milestonePoints] is truthy: a configured
\* threshold, or an inherited property
HasReward(milestonePoints) ==
  milestonePoints \in MILESTONE_REWARDS \/ milestonePoints = InheritedName

\* (user.referral_count || 0) < milestonePoints: false against a text that
\* is no number
BelowThreshold(referralCount, milestonePoints) ==
  milestonePoints # InheritedName /\ referralCount < milestonePoints

\* redeemedMilestones[milestonePoints] is truthy: an entry of the ledger, or
\* the property the parsed object inherits
Redeemed(ledger, milestonePoints) ==
  milestonePoints = InheritedName \/ \E e \in ledger : e[1] = milestonePoints

\* redeemedMilestones[milestonePoints] = discountCode
SetMilestone(ledger, milestonePoints, discountCode) ==
  {e \in ledger : e[1] # milestonePoints} \cup {<<milestonePoints, discountCode>>}

processMilestoneRedeem(w, r) ==
  CASE r.pc = "start" ->
         IF ~HasReward(r.a.milestonePoints)
         THEN Throw(w, r, "Invalid milestone")
         ELSE Goto(w, r, "findUserByEmail")
    [] r.pc = "findUserByEmail" ->
         LET user == findUserByEmail(w, r.a.email)
         IN IF user = NoUser THEN Throw(w, r, "User not found")
            ELSE IF BelowThreshold(user.referral_count, r.a.milestonePoints)
            THEN Throw(w, r, NeedReferrals(r.a.milestonePoints))
            ELSE IF Redeemed(user.referal_discount_code, r.a.milestonePoints)
            THEN Throw(w, r, "Milestone already redeemed")
            ELSE Goto(w, [r EXCEPT !.user = user], "createDiscountCode")
    [] r.pc = "createDiscountCode" ->
         IF r.a.fail
         THEN Throw(w, r, "Failed to create discount code")
         ELSE LET w2 == createDiscountCode(w, <<"1", "0", "0">>, 0, "free_product")
              IN Goto(w2, [r EXCEPT !.code = lastDiscount(w2)],
                      "updateMilestoneDiscountCodes")
    [] r.pc = "updateMilestoneDiscountCodes" ->
         Return(updateMilestoneDiscountCodes(w, r.user.user_id,
                  SetMilestone(r.user.referal_discount_code, r.a.milestonePoints,
                               r.code)),
                r, [status |-> "ok", discountCode |-> r.code])

(***************************************************************************)
(* One step of a request, and a handler run to completion.                 *)
(***************************************************************************)
Step(w, r) ==
  CASE r.op = "Signup" -> processSignup(w, r)
    [] r.op = "AwardPoints" -> processAwardPoints(w, r)
    [] r.op = "Redeem" -> processRedeem(w, r)
    [] r.op = "CancelRedeem" -> processCancelRedeem(w, r)
    [] r.op = "MarkDiscountUsed" -> processMarkDiscountUsed(w, r)
    [] r.op = "ProcessPurchase" -> processPurchase(w, r)
    [] r.op = "MilestoneRedeem" -> processMilestoneRedeem(w, r)

RECURSIVE Run(_, _)
Run(w, r) == IF r.pc = "done" THEN [w |-> w, r |-> r]
             ELSE CHOOSE out \in {Run(s.w, s.r) : s \in {Step(w, r)}} : TRUE

\* The call: the synchronous code up to the first await
Call(w, r) == Step(w, r).r

(***************************************************************************)
(* The requests a client or the shop's webhook can send.                   *)
(***************************************************************************)
OtherCode == [kind |-> "OTHER", value |-> 0, id |-> 0]  \* not a reward code

\* The codes an order or a client can name: every minted code that a user
\* holds, the latest minted code that no user holds (the handlers find no
\* user for such a code, whichever it is), and a code that is no reward code
CodeInputs(w) ==
  LET minted == {w.discounts[i].code : i \in 1..Len(w.discounts)}
      held == {c \in minted :
                 \E i \in 1..Len(w.users) : w.users[i].last_discount_code = c}
      free == minted \ held
  IN held \cup {c \in free : \A d \in free : d.id <= c.id} \cup {OtherCode}

CodeLists(w) ==
  UNION {[1..n -> CodeInputs(w)] : n \in 0..MaxOrderCodes}

\* referredBy is what the client sends: nothing, a referral code, or any
\* other text, here one of 51 characters
Overlong == "REF-0123456789-0123456789-0123456789-0123456789-XYZ"

ReferredByInputs == RefCodes \cup {NULL, Overlong}

SignupRequests ==
  {NewReq("Signup", [email |-> e, referredBy |-> by, referralCode |-> c, fail |-> f]) :
     e \in Emails, by \in ReferredByInputs, c \in RefCodes, f \in BOOLEAN}

AwardPointsRequests ==
  {NewReq("AwardPoints", [email |-> e, action |-> a]) :
     e \in Emails, a \in ActionInputs}

RedeemRequests ==
  {NewReq("Redeem", [email |-> e, pointsToRedeem |-> p, redeemValue |-> v,
                     fail |-> f]) :
     e \in Emails, p \in RedeemPoints, v \in RedeemValues, f \in BOOLEAN}

CancelRedeemRequests ==
  {NewReq("CancelRedeem", [email |-> e, pointsToRefund |-> p, deactFail |-> f]) :
     e \in Emails, p \in RedeemPoints, f \in BOOLEAN}

MarkDiscountUsedRequests(w) ==
  {NewReq("MarkDiscountUsed", [email |-> e, usedCode |-> c, deactFail |-> f]) :
     e \in Emails, c \in CodeInputs(w), f \in BOOLEAN}

ProcessPurchaseRequests(w) ==
  {NewReq("ProcessPurchase", [email |-> e, orderTotal |-> t, orderId |-> o,
                              totalSpent |-> s, discountCodes |-> cs]) :
     e \in Emails, t \in OrderTotals, o \in OrderIds, s \in TotalSpents,
     cs \in CodeLists(w)}

MilestoneInputs == {5, 7, 10, InheritedName}

MilestoneRedeemRequests ==
  {NewReq("MilestoneRedeem", [email |-> e, milestonePoints |-> m, fail |-> f]) :
     e \in Emails, m \in MilestoneInputs, f \in BOOLEAN}

(***************************************************************************)
(* Initial worlds: the empty database, and databases built by running      *)
(* handlers from it.                                                       *)
(***************************************************************************)
EmptyWorld == [users |-> <<>>, user_actions |-> <<>>, discounts |-> <<>>]

RECURSIVE RunAll(_, _)
RunAll(w, rs) == IF rs = <<>> THEN w ELSE RunAll(Run(w, Head(rs)).w, Tail(rs))

\* a@x signed up, then b@x signed up with a@x's referral link
TwoUsers ==
  RunAll(EmptyWorld,
    << NewReq("Signup", [email |-> "a@x", referredBy |-> NULL,
                         referralCode |-> "R1", fail |-> FALSE]),
       NewReq("Signup", [email |-> "b@x", referredBy |-> "R1",
                         referralCode |-> "R2", fail |-> FALSE]) >>)

\* ... and a@x redeemed 5 points for a code
TwoUsersOneCode ==
  RunAll(TwoUsers,
    << NewReq("Redeem", [email |-> "a@x", pointsToRedeem |-> 5,
                         redeemValue |-> Dynamic, fail |-> FALSE]) >>)

\* a@x signed up, five customers signed up with a@x's referral link and each
\* paid a first order, then a@x redeemed 5 points for a code; b@x is unknown
Referred == <<"c@x", "d@x", "e@x", "f@x", "g@x">>
ReferredCodes == <<"R3", "R4", "R5", "R6", "R7">>

FiveReferrals ==
  RunAll(EmptyWorld,
    << NewReq("Signup", [email |-> "a@x", referredBy |-> NULL,
                         referralCode |-> "R1", fail |-> FALSE]) >>
    \o [k \in 1..5 |->
          NewReq("Signup", [email |-> Referred[k], referredBy |-> "R1",
                            referralCode |-> ReferredCodes[k], fail |-> TRUE])]
    \o [k \in 1..5 |->
          NewReq("ProcessPurchase", [email |-> Referred[k], orderTotal |-> 2050,
                                     orderId |-> 1, totalSpent |-> 0,
                                     discountCodes |-> <<>>])]
    \o << NewReq("Redeem", [email |-> "a@x", pointsToRedeem |-> 5,
                            redeemValue |-> Dynamic, fail |-> FALSE]) >>)

SeedWorlds == {EmptyWorld, TwoUsers, TwoUsersOneCode, FiveReferrals}

NoRedeem == [phase |-> "none"]
NoCall == [fn |-> "none"]

Init ==
  /\ seed \in SeedWorlds
  /\ users = seed.users
  /\ user_actions = seed.user_actions
  /\ discounts = seed.discounts
  /\ reqs = EmptyBag
  /\ last = NoReq
  /\ nops = 0
  /\ rt = NoRedeem
  /\ call = NoCall

(***************************************************************************)
(* Spec: operations one after another, each handler run to completion.     *)
(***************************************************************************)
\* rt after request r (done) took the world from w to w2
NextRt(w, w2, r) ==
  IF r.op = "Redeem" /\ r.res.status = "ok"
  THEN [phase |-> "redeemed", uid |-> r.user.user_id, pre |-> r.user.points,
        p |-> r.a.pointsToRedeem]
  ELSE IF rt.phase # "redeemed" THEN NoRedeem
  ELSE IF /\ r.op = "CancelRedeem" /\ r.res.status = "ok"
          /\ r.a.email = w.users[rt.uid].email /\ r.a.pointsToRefund = rt.p
  THEN [rt EXCEPT !.phase = "refunded"]
  ELSE IF \/ r.a.email = w.users[rt.uid].email
          \/ w2.users[rt.uid] # w.users[rt.uid]
  THEN NoRedeem
  ELSE rt

Do(r) ==
  /\ \E out \in {Run(World, r)} :
       /\ users' = out.w.users
       /\ user_actions' = out.w.user_actions
       /\ discounts' = out.w.discounts
       /\ last' = out.r
       /\ rt' = NextRt(World, out.w, out.r)
  /\ nops' = nops + 1
  /\ UNCHANGED <<reqs, seed, call>>

Signup == nops < MaxOps /\ \E r \in SignupRequests : Do(r)
AwardPoints == nops < MaxOps /\ \E r \in AwardPointsRequests : Do(r)
Redeem == nops < MaxOps /\ \E r \in RedeemRequests : Do(r)
CancelRedeem == nops < MaxOps /\ \E r \in CancelRedeemRequests : Do(r)
MarkDiscountUsed == nops < MaxOps /\ \E r \in MarkDiscountUsedRequests(World) : Do(r)
ProcessPurchase == nops < MaxOps /\ \E r \in ProcessPurchaseRequests(World) : Do(r)
MilestoneRedeem == nops < MaxOps /\ \E r \in MilestoneRedeemRequests : Do(r)

Next ==
  \/ Signup
  \/ AwardPoints
  \/ Redeem
  \/ CancelRedeem
  \/ MarkDiscountUsed
  \/ ProcessPurchase
  \/ MilestoneRedeem

Spec == Init /\ [][Next]_vars

(***************************************************************************)
(* SpecConc: overlapping requests.  Issue starts a handler (its code up to *)
(* the first await); each other action executes the next await of one      *)
(* request in flight.                                                      *)
(***************************************************************************)
\* The requests issued concurrently: the collaborators succeed, one amount
Nominal(r) ==
  CASE r.op = "Signup" -> ~r.a.fail /\ r.a.referredBy \in {NULL, "R1"}
    [] r.op = "AwardPoints" -> r.a.action \in DOMAIN ALLOWED_ACTIONS
    [] r.op = "Redeem" -> ~r.a.fail /\ r.a.pointsToRedeem = 5
                           /\ r.a.redeemValue = Dynamic
    [] r.op = "CancelRedeem" -> ~r.a.deactFail /\ r.a.pointsToRefund = 5
    [] r.op = "MarkDiscountUsed" -> ~r.a.deactFail /\ r.a.usedCode # OtherCode
    [] r.op = "ProcessPurchase" -> r.a.totalSpent = 0
    [] r.op = "MilestoneRedeem" -> ~r.a.fail /\ r.a.milestonePoints = 5

AllRequests(w) ==
  SignupRequests \cup AwardPointsRequests \cup RedeemRequests
    \cup CancelRedeemRequests \cup MarkDiscountUsedRequests(w)
    \cup ProcessPurchaseRequests(w) \cup MilestoneRedeemRequests

ConcRequests(w) == {r \in AllRequests(w) : Nominal(r)}

InFlight == {r \in BagToSet(reqs) : r.pc # "done"}

Issue ==
  /\ nops < MaxReqs
  /\ \E r \in ConcRequests(World) :
       reqs' = reqs (+) SetToBag({Call(World, r)})
  /\ nops' = nops + 1
  /\ UNCHANGED <<users, user_actions, discounts, last, seed, rt, call>>

Await(op) ==
  \E r \in InFlight :
    /\ r.op = op
    /\ \E out \in {Step(World, r)} :
         /\ users' = out.w.users
         /\ user_actions' = out.w.user_actions
         /\ discounts' = out.w.discounts
         /\ reqs' = (reqs (-) SetToBag({r})) (+) SetToBag({out.r})
    /\ UNCHANGED <<last, nops, seed, rt, call>>

SignupStep == InFlight # {} /\ Await("Signup")
AwardPointsStep == InFlight # {} /\ Await("AwardPoints")
RedeemStep == InFlight # {} /\ Await("Redeem")
CancelRedeemStep == InFlight # {} /\ Await("CancelRedeem")
MarkDiscountUsedStep == InFlight # {} /\ Await("MarkDiscountUsed")
ProcessPurchaseStep == InFlight # {} /\ Await("ProcessPurchase")
MilestoneRedeemStep == InFlight # {} /\ Await("MilestoneRedeem")

NextConc ==
  \/ Issue
  \/ SignupStep
  \/ AwardPointsStep
  \/ RedeemStep
  \/ CancelRedeemStep
  \/ MarkDiscountUsedStep
  \/ ProcessPurchaseStep
  \/ MilestoneRedeemStep

SpecConc == Init /\ [][NextConc]_vars

(***************************************************************************)
(* SpecPure: one call of a utility function of rewards.js.  The initial    *)
(* state holds the arguments, the action is the call.                      *)
(***************************************************************************)
\* values of the parameter tiers, ascending by minSpent: the empty list, a
\* single tier, two and three tiers, a base tier whose threshold is above 0
Tier(name, minSpent, pointsPerDollar) ==
  [name |-> name, minSpent |-> minSpent, pointsPerDollar |-> pointsPerDollar]

TierLists ==
  { <<>>,
    <<Tier("Base", 0, 5)>>,
    <<Tier("Base", 0, 5), Tier("Mid", 500, 7)>>,
    <<Tier("Base", 0, 5), Tier("Mid", 500, 7), Tier("Top", 1000, 10)>>,
    <<Tier("Base", 100, 5), Tier("Mid", 500, 7)>> }

SpendInputs == {0 - 1, 0, 99, 100, 499, 500, 501, 999, 1000, 2000}

\* the dollar amount between POINTS and CAD_, well formed or not
NumberTexts ==
  { <<"1", "2", ".", "5">>, <<"5">>, <<"1", "5">>, <<"1", ".", "0", "0">>,
    <<"0", ".", "0", "5">>, <<"0", ".", "1", "0">>, <<"0", ".", "0", "7">>,
    <<"0", ".", "2", "9">>, <<"1", ".", "1", "0">>, <<"1", ".", "1", "5">>,
    <<>>, <<"5", ".">>, <<".", "5">>, <<"-", "0", ".", "0", "5">> }

T_SUFFIX == <<"A", "B", "3", "F", "9">>
T_MILESTONE == <<"M", "I", "L", "E", "S", "T", "O", "N", "E", "F", "R", "E", "E",
                 "_", "X", "9", "Z", "1", "2">>

CodeTexts ==
  { pre \o T_POINTS \o num \o tail \o T_SUFFIX :
      pre \in {<<>>, <<"X">>}, num \in NumberTexts,
      tail \in {T_CAD, <<"C", "A", "D">>} }
    \cup {T_MILESTONE, <<>>, T_POINTS}

PureCalls ==
  {[fn |-> "getTierForSpent", args |-> [tiers |-> t, totalSpent |-> x]] :
     t \in TierLists, x \in SpendInputs}
    \cup {[fn |-> "parseDiscountTierFromCode", args |-> [code |-> c]] :
            c \in CodeTexts}

InitPure ==
  /\ call \in PureCalls
  /\ seed = EmptyWorld
  /\ users = seed.users
  /\ user_actions = seed.user_actions
  /\ discounts = seed.discounts
  /\ reqs = EmptyBag
  /\ last = NoReq
  /\ nops = 0
  /\ rt = NoRedeem

Returned == "result" \in DOMAIN call

GetTierForSpent ==
  /\ call.fn = "getTierForSpent" /\ ~Returned
  /\ call' = [fn |-> call.fn, args |-> call.args,
               result |-> getTierForSpentIn(call.args.tiers, call.args.totalSpent)]
  /\ UNCHANGED <<users, user_actions, discounts, reqs, last, nops, seed, rt>>

ParseDiscountTierFromCode ==
  /\ call.fn = "parseDiscountTierFromCode" /\ ~Returned
  /\ call' = [fn |-> call.fn, args |-> call.args,
               result |-> parseDiscountTierFromText(call.args.code)]
  /\ UNCHANGED <<users, user_actions, discounts, reqs, last, nops, seed, rt>>

NextPure ==
  \/ GetTierForSpent
  \/ ParseDiscountTierFromCode

SpecPure == InitPure /\ [][NextPure]_vars

(***************************************************************************)
(* Observations of the state used by the properties below.                 *)
(***************************************************************************)
Rows == 1..Len(users)

RowOf(email) == {i \in Rows : users[i].email = email}

RECURSIVE SumDeltas(_, _)
SumDeltas(log, uid) ==
  IF log = <<>> THEN 0
  ELSE (IF Head(log).user_id = uid THEN Head(log).points_awarded ELSE 0)
         + SumDeltas(Tail(log), uid)

ActionsOfType(log, uid, type) ==
  {k \in 1..Len(log) : log[k].user_id = uid /\ log[k].action_type = type}

ActionsOfOrder(log, uid, orderId) ==
  {k \in 1..Len(log) : /\ log[k].user_id = uid
                        /\ log[k].action_ref = [kind |-> "order", order |-> orderId]}

Slot(u) == <<u.last_discount_code, u.discount_code_id>>
EmptySlot == <<NoCode, NullId>>

\* the step is an operation of Spec, completed as request last'
Operation(op) == nops' = nops + 1 /\ last'.op = op

Failed(r, message) == r.res = [status |-> "error", error |-> message]

(***************************************************************************)
(* C1. Ledger consistency: after any sequence of operations, each run to   *)
(* completion, every user's stored balance equals the sum of the points    *)
(* deltas of the Action rows persisted for that user.  (Stated for the     *)
(* behaviours that start from the empty database.)                         *)
(***************************************************************************)
C1_LedgerConsistency ==
  seed = EmptyWorld =>
    \A i \in Rows : users[i].points = SumDeltas(user_actions, i)

(***************************************************************************)
(* C2. AwardPoints calls one after another with the same (email, action),  *)
(* for an existing user and a whitelisted action: the call that finds no   *)
(* Action of that type succeeds, credits the balance once and appends the  *)
(* Action; every call that finds one fails with "already claimed" and      *)
(* changes nothing; so exactly one Action of that type exists afterwards.  *)
(***************************************************************************)
C2_AwardOnce ==
  [][\A i \in Rows :
       (/\ Operation("AwardPoints")
        /\ last'.a.email = users[i].email
        /\ last'.a.action \in {"social_media_follow", "share"})
       => LET t == last'.a.action
              pts == IF t = "share" THEN 5 ELSE 50
              claimed == ActionsOfType(user_actions, i, t) # {}
          IN /\ claimed =>
                  /\ Failed(last', "Points already claimed for this action")
                  /\ users' = users /\ user_actions' = user_actions
             /\ ~claimed =>
                  /\ last'.res.status = "ok"
                  /\ users'[i].points = users[i].points + pts
                  /\ Len(user_actions') = Len(user_actions) + 1
             /\ Cardinality(ActionsOfType(user_actions', i, t)) = 1
    ]_vars

\* a second AwardPoints call for the same user and action was rejected
C2_Witness ==
  /\ last.op = "AwardPoints"
  /\ Failed(last, "Points already claimed for this action")
  /\ Cardinality(ActionsOfType(user_actions, last.user.user_id, last.a.action)) = 1

(***************************************************************************)
(* C3. ProcessPurchase calls one after another with the same (email,       *)
(* orderId) for an existing user: the call that finds no Action with       *)
(* reference order_<orderId> awards the points and appends one purchase    *)
(* Action with that reference; every replay returns "skipped" and changes  *)
(* no balance, Action, counter or slot.                                    *)
(***************************************************************************)
C3_PurchaseOnce ==
  [][\A i \in Rows :
       (Operation("ProcessPurchase") /\ last'.a.email = users[i].email)
       => LET o == last'.a.orderId
              seen == ActionsOfOrder(user_actions, i, o) # {}
              gain == users'[i].points - users[i].points
          IN /\ seen =>
                  /\ last'.res = [status |-> "skipped",
                                  reason |-> "Order already processed"]
                  /\ users' = users /\ user_actions' = user_actions
                  /\ discounts' = discounts
             /\ ~seen =>
                  /\ last'.res.status = "ok"
                  /\ last'.res.pointsAwarded > 0
                  /\ gain \in {last'.res.pointsAwarded,
                               last'.res.pointsAwarded + REFERRAL_BONUS_POINTS}
                  /\ \E k \in ActionsOfOrder(user_actions', i, o) :
                       /\ user_actions'[k].action_type = "shopify_purchase"
                       /\ user_actions'[k].points_awarded = last'.res.pointsAwarded
             /\ Cardinality(ActionsOfOrder(user_actions', i, o)) = 1
    ]_vars

\* the replay of an order was skipped
C3_Witness ==
  /\ last.op = "ProcessPurchase"
  /\ last.res = [status |-> "skipped", reason |-> "Order already processed"]
  /\ Cardinality(ActionsOfOrder(user_actions, last.user.user_id, last.a.orderId)) = 1

(***************************************************************************)
(* Observations of the requests of SpecConc.                               *)
(***************************************************************************)
RECURSIVE Copies(_)
Copies(S) == IF S = {} THEN 0
             ELSE LET r == CHOOSE x \in S : TRUE
                  IN CopiesIn(r, reqs) + Copies(S \ {r})

Succeeded(op) ==
  {r \in BagToSet(reqs) : r.op = op /\ r.pc = "done" /\ r.res.status = "ok"}

AwardsGranted(email, action) ==
  Copies({r \in Succeeded("AwardPoints") :
            r.a.email = email /\ r.a.action = action})

\* purchase requests that have executed their createAction
PurchasesRecorded(email, orderId) ==
  Copies({r \in BagToSet(reqs) :
            /\ r.op = "ProcessPurchase"
            /\ r.a.email = email /\ r.a.orderId = orderId
            /\ \/ r.pc = "done" /\ r.res.status = "ok"
               \/ r.pc \in {"used.findUserByDiscountCode",
                             "used.clearUserDiscountCodeById", "used.createAction",
                             "bonus.findUserByReferralCode",
                             "bonus.updateUserPointsById",
                             "bonus.incrementReferralCount", "bonus.createAction"}})

(***************************************************************************)
(* C4. The duplicate check is a read followed by a write: every request    *)
(* that passed it appends its own Action, also when another request with   *)
(* the same user and key (AwardPoints action, ProcessPurchase orderId)     *)
(* passed it too - nothing deduplicates the second row: the rows of a key  *)
(* are those of the initial database plus one per such request.  The       *)
(* witness is the double credit: two Actions of one key for one user and a *)
(* balance raised by twice the award.                                      *)
(***************************************************************************)
C4_EveryPassAppends ==
  \A i \in Rows :
    /\ \A t \in {"social_media_follow", "share"} :
         Cardinality(ActionsOfType(user_actions, i, t))
           = Cardinality(ActionsOfType(seed.user_actions, i, t))
               + AwardsGranted(users[i].email, t)
    /\ \A o \in OrderIds :
         Cardinality(ActionsOfOrder(user_actions, i, o))
           = Cardinality(ActionsOfOrder(seed.user_actions, i, o))
               + PurchasesRecorded(users[i].email, o)

C4_Witness ==
  \E i \in Rows :
    /\ i \in 1..Len(seed.users)
    /\ AwardsGranted(users[i].email, "share") = 2
    /\ Cardinality(ActionsOfType(user_actions, i, "share")) = 2
    /\ users[i].points = seed.users[i].points + 2 * 5

(***************************************************************************)
(* C5. Operations issued concurrently for different users are safe: when   *)
(* all requests have completed, no two of them named the same email and    *)
(* each named a user that was already signed up (one of whom may be the    *)
(* referrer of the other), the balances, the referral counters and the     *)
(* Action log are those of some execution of the same requests one after   *)
(* another.                                                                *)
(***************************************************************************)
EmailOf(w, uid) == w.users[uid].email

CanonRef(w, ref) ==
  IF ref.kind = "referral" THEN [ref EXCEPT !.user = EmailOf(w, ref.user)] ELSE ref

CanonRow(w, a) ==
  [email |-> EmailOf(w, a.user_id), type |-> a.action_type,
   delta |-> a.points_awarded, ref |-> CanonRef(w, a.action_ref)]

\* balances and counters by email, the Action log as a bag
Outcome(w) ==
  [balance |-> [e \in Emails |->
                  LET S == {i \in 1..Len(w.users) : w.users[i].email = e}
                  IN IF S = {} THEN <<>>
                     ELSE LET i == CHOOSE i \in S : TRUE
                          IN <<w.users[i].points, w.users[i].referral_count>>],
   log |-> LET rows == {CanonRow(w, w.user_actions[k]) : k \in 1..Len(w.user_actions)}
           IN [x \in rows |->
                 Cardinality({k \in 1..Len(w.user_actions) :
                                CanonRow(w, w.user_actions[k]) = x})]]

Orders(S) ==
  {s \in [1..Cardinality(S) -> S] :
     \A a, b \in 1..Cardinality(S) : a # b => s[a] # s[b]}

SerialOutcomes ==
  LET S == {NewReq(r.op, r.a) : r \in BagToSet(reqs)}
  IN {Outcome(RunAll(seed, s)) : s \in Orders(S)}

DifferentUsers ==
  /\ \A r \in BagToSet(reqs) : CopiesIn(r, reqs) = 1
  /\ \A r1, r2 \in BagToSet(reqs) : r1 # r2 => r1.a.email # r2.a.email

SignedUp ==
  \A r \in BagToSet(reqs) :
    r.op # "Signup" /\ findUserByEmail(seed, r.a.email) # NoUser

C5_SerializableAcrossUsers ==
  (InFlight = {} /\ DifferentUsers /\ SignedUp) => Outcome(World) \in SerialOutcomes

(***************************************************************************)
(* C6. In every reachable state, for every interleaving of operations      *)
(* called with non-negative amounts, every user's balance is >= 0; in      *)
(* particular two overlapping Redeems do not drive it below zero.          *)
(***************************************************************************)
C6_BalanceNonNegative == \A i \in Rows : users[i].points >= 0

\* two Redeems of one user, both granted, whose points together exceed the
\* balance the user had
C6_Witness ==
  \E i \in Rows :
    /\ i \in 1..Len(seed.users)
    /\ Copies({r \in Succeeded("Redeem") : r.a.email = users[i].email}) = 2
    /\ seed.users[i].points < 5 + 5
    /\ users[i].points = 0

(***************************************************************************)
(* C7. Redeem with pointsToRedeem greater than the user's balance fails    *)
(* with "Not enough points to redeem" and changes nothing: same balance,   *)
(* no Action appended, no discount minted, slot untouched.  Redeem for an  *)
(* email that no user has fails with "User not found" in the same way.     *)
(***************************************************************************)
C7_RedeemRefused ==
  [][Operation("Redeem")
       => /\ RowOf(last'.a.email) = {}
               => /\ Failed(last', "User not found")
                  /\ users' = users /\ user_actions' = user_actions
                  /\ discounts' = discounts
          /\ \A i \in RowOf(last'.a.email) :
               last'.a.pointsToRedeem > users[i].points
               => /\ Failed(last', "Not enough points to redeem")
                  /\ users' = users /\ user_actions' = user_actions
                  /\ discounts' = discounts
    ]_vars

\* a Redeem asking for more than the balance was refused
C7_Witness ==
  /\ last.op = "Redeem"
  /\ Failed(last, "Not enough points to redeem")
  /\ \E i \in RowOf(last.a.email) :
       users[i].points > 0 /\ users[i].points < last.a.pointsToRedeem

(***************************************************************************)
(* C8. Round trip: a successful Redeem of p points followed, with no other *)
(* operation on that user in between, by a successful CancelRedeem with    *)
(* pointsToRefund = p brings the user's balance back to its value before   *)
(* the Redeem and leaves the outstanding slot empty.                       *)
(***************************************************************************)
C8_RedeemCancelRoundTrip ==
  rt.phase = "refunded"
    => /\ users[rt.uid].points = rt.pre
       /\ Slot(users[rt.uid]) = EmptySlot

C8_Witness ==
  /\ rt.phase = "refunded"
  /\ last.op = "CancelRedeem" /\ last.res.status = "ok"
  /\ last.a.pointsToRefund = rt.p

(***************************************************************************)
(* C9. MarkDiscountUsed with a user's email and the code outstanding in    *)
(* that user's slot succeeds, changes no balance and no Action, and clears *)
(* both slot fields (code and external id).                                *)
(***************************************************************************)
C9_MarkUsedNoAdjustment ==
  [][\A i \in Rows :
       (/\ Operation("MarkDiscountUsed")
        /\ last'.a.email = users[i].email
        /\ last'.a.usedCode = users[i].last_discount_code)
       => /\ last'.res.status = "ok"
          /\ Len(users') = Len(users)
          /\ \A j \in Rows : users'[j].points = users[j].points
          /\ user_actions' = user_actions
          /\ users'[i].last_discount_code = NoCode
          /\ users'[i].discount_code_id = NullId
    ]_vars

C9_Witness ==
  /\ last.op = "MarkDiscountUsed" /\ last.res.status = "ok"
  /\ \E i \in RowOf(last.a.email) :
       /\ Slot(users[i]) = EmptySlot
       /\ \E k \in 1..Len(user_actions) :
            /\ user_actions[k].user_id = i
            /\ user_actions[k].action_type = "redeem-discount"

(***************************************************************************)
(* C10. The outstanding-redemption slot of a user goes from EMPTY to       *)
(* ISSUED only by a successful Redeem of that user, and from ISSUED to     *)
(* EMPTY only by a CancelRedeem or MarkDiscountUsed of that user or by a   *)
(* ProcessPurchase whose discount codes list the stored code.  Signup,     *)
(* AwardPoints, MilestoneRedeem and a ProcessPurchase that does not list   *)
(* the stored code leave the slot as it is; a new user starts EMPTY.       *)
(***************************************************************************)
Lists(codes, code) == \E k \in DOMAIN codes : codes[k] = code

C10_SlotStateMachine ==
  [][/\ \A i \in Rows :
          LET u == users[i]
              old == Slot(u)
              new == Slot(users'[i])
              by(op) == Operation(op) /\ last'.a.email = u.email
                          /\ last'.res.status = "ok"
          IN /\ (old = EmptySlot /\ new # EmptySlot) => by("Redeem")
             /\ (old # EmptySlot /\ new = EmptySlot)
                  => \/ by("CancelRedeem")
                     \/ by("MarkDiscountUsed")
                     \/ /\ Operation("ProcessPurchase")
                        /\ Lists(last'.a.discountCodes, u.last_discount_code)
             /\ (\/ Operation("Signup")
                 \/ Operation("AwardPoints")
                 \/ Operation("MilestoneRedeem")
                 \/ /\ Operation("ProcessPurchase")
                    /\ ~Lists(last'.a.discountCodes, u.last_discount_code))
                  => new = old
     /\ \A i \in (1..Len(users')) \ Rows : Slot(users'[i]) = EmptySlot
    ]_vars

\* a purchase listing a user's outstanding code emptied that user's slot
C10_Witness ==
  /\ last.op = "ProcessPurchase" /\ last.res.status = "ok"
  /\ \E i \in Rows :
       /\ i \in 1..Len(seed.users)
       /\ seed.users[i].last_discount_code # NoCode
       /\ Lists(last.a.discountCodes, seed.users[i].last_discount_code)
       /\ Slot(users[i]) = EmptySlot

(***************************************************************************)
(* C11. Redeem commits the point deduction and the negative-delta Action   *)
(* before it asks for the discount: when the issuance is refused, Redeem   *)
(* fails, the balance stays reduced by pointsToRedeem, the redemption      *)
(* Action stays appended, no discount exists, the slot holds what it held  *)
(* before, and nothing else changes.                                       *)
(***************************************************************************)
RedeemRow(uid, p) ==
  [user_id |-> uid, action_type |-> "redeem-discount", points_awarded |-> 0 - p,
   action_ref |-> NoRef]

C11_RedeemNoRollback ==
  [][\A i \in Rows :
       (/\ Operation("Redeem")
        /\ last'.a.email = users[i].email
        /\ last'.a.fail
        /\ users[i].points >= last'.a.pointsToRedeem)
       => /\ Failed(last', "Failed to create discount code")
          /\ users' = [users EXCEPT ![i].points = @ - last'.a.pointsToRedeem]
          /\ user_actions' = Append(user_actions,
                                    RedeemRow(i, last'.a.pointsToRedeem))
          /\ discounts' = discounts
    ]_vars

\* a Redeem failed at the issuance and the points are gone
C11_Witness ==
  /\ last.op = "Redeem"
  /\ Failed(last, "Failed to create discount code")
  /\ \E i \in RowOf(last.a.email) :
       /\ i \in 1..Len(seed.users)
       /\ users[i].points = seed.users[i].points - last.a.pointsToRedeem
       /\ Slot(users[i]) = EmptySlot
       /\ user_actions[Len(user_actions)] = RedeemRow(i, last.a.pointsToRedeem)

(***************************************************************************)
(* C12. CancelRedeem for a user whose slot is empty fails with "No active  *)
(* discount to cancel" and changes nothing: no refund, no deactivation, no *)
(* Action.  A CancelRedeem that succeeds found the slot holding a code and *)
(* leaves it empty, so of the calls made one after another at most one     *)
(* succeeds per issued code.                                               *)
(***************************************************************************)
C12_CancelNeedsCode ==
  [][\A i \in Rows :
       (Operation("CancelRedeem") /\ last'.a.email = users[i].email)
       => /\ users[i].last_discount_code = NoCode
               => /\ Failed(last', "No active discount to cancel")
                  /\ users' = users /\ user_actions' = user_actions
                  /\ discounts' = discounts
          /\ last'.res.status = "ok"
               => /\ users[i].last_discount_code # NoCode
                  /\ Slot(users'[i]) = EmptySlot
    ]_vars

\* the second CancelRedeem of one code was refused
C12_Witness ==
  /\ last.op = "CancelRedeem"
  /\ Failed(last, "No active discount to cancel")
  /\ nops = 2
  /\ \E i \in RowOf(last.a.email) :
       /\ i \in 1..Len(seed.users)
       /\ seed.users[i].last_discount_code # NoCode
       /\ users[i].points = seed.users[i].points + 5

(***************************************************************************)
(* Observations of purchases and referral bonuses in the Action log.       *)
(***************************************************************************)
PurchasesOf(log, uid) ==
  {k \in 1..Len(log) :
     /\ log[k].user_id = uid
     /\ log[k].action_type \in {"purchase", "test_purchase", "shopify_purchase"}}

BonusRows(log) ==
  {k \in 1..Len(log) : log[k].action_type = "referral_first_purchase_bonus"}

\* the bonus Actions granted for purchases of the referred user uid
BonusesFor(log, uid) == {k \in BonusRows(log) : log[k].action_ref.user = uid}

\* the users whose referral code is the one user i was referred by
ReferrersOf(i) ==
  {j \in Rows : users[i].referred_by # NULL
                 /\ users[j].referral_code = users[i].referred_by}

(***************************************************************************)
(* C13. ProcessPurchase calls made one after another for a referred user,  *)
(* with distinct or repeated order ids: the referrer's first-purchase      *)
(* bonus is granted at most once per referred user, and only by a call     *)
(* that finds no purchase Action of that user; a later purchase changes    *)
(* neither another user's balance nor any referral counter.                *)
(***************************************************************************)
C13_BonusAtMostOnce ==
  [][\A i \in Rows :
       (Operation("ProcessPurchase") /\ last'.a.email = users[i].email)
       => /\ Cardinality(BonusesFor(user_actions', i)) <= 1
          /\ BonusesFor(user_actions', i) # BonusesFor(user_actions, i)
               => PurchasesOf(user_actions, i) = {}
          /\ PurchasesOf(user_actions, i) # {}
               => /\ BonusRows(user_actions') = BonusRows(user_actions)
                  /\ \A j \in Rows :
                       /\ j # i => users'[j].points = users[j].points
                       /\ users'[j].referral_count = users[j].referral_count
    ]_vars

\* a second order of a referred user was credited without a second bonus
C13_Witness ==
  /\ last.op = "ProcessPurchase" /\ last.res.status = "ok"
  /\ ~last.res.isFirstPurchase
  /\ \E i \in RowOf(last.a.email) :
       /\ ReferrersOf(i) # {}
       /\ Cardinality(PurchasesOf(user_actions, i)) = 2
       /\ Cardinality(BonusesFor(user_actions, i)) = 1

(***************************************************************************)
(* C14. When ProcessPurchase handles the first purchase of a user whose    *)
(* referredBy is the referral code of an existing user, that referrer's    *)
(* balance grows by 1500, the referrer's referral counter grows by 1, and  *)
(* one Action (referral_first_purchase_bonus, 1500, reference              *)
(* referral_<referred user id>_order_<order id>) is appended for the       *)
(* referrer.  When the purchase is not the first, or referredBy is absent  *)
(* or names no user, none of the three happens.                            *)
(***************************************************************************)
BonusRow(referrer, referred, orderId) ==
  [user_id |-> referrer, action_type |-> "referral_first_purchase_bonus",
   points_awarded |-> 1500,
   action_ref |-> [kind |-> "referral", user |-> referred, order |-> orderId]]

C14_FirstPurchaseBonus ==
  [][\A i \in Rows :
       (/\ Operation("ProcessPurchase")
        /\ last'.a.email = users[i].email
        /\ last'.res.status = "ok")
       => LET granted == PurchasesOf(user_actions, i) = {} /\ ReferrersOf(i) # {}
              own(j) == IF j = i THEN last'.res.pointsAwarded ELSE 0
          IN /\ granted =>
                  \A j \in ReferrersOf(i) :
                    /\ users'[j].points = users[j].points + 1500 + own(j)
                    /\ users'[j].referral_count = users[j].referral_count + 1
                    /\ user_actions'[Len(user_actions')]
                         = BonusRow(j, i, last'.a.orderId)
                    /\ Cardinality(BonusRows(user_actions'))
                         = Cardinality(BonusRows(user_actions)) + 1
             /\ ~granted =>
                  /\ BonusRows(user_actions') = BonusRows(user_actions)
                  /\ \A j \in Rows :
                       /\ users'[j].points = users[j].points + own(j)
                       /\ users'[j].referral_count = users[j].referral_count
    ]_vars

\* the first order of a referred user credited the referrer
C14_Witness ==
  /\ last.op = "ProcessPurchase" /\ last.res.status = "ok"
  /\ last.res.isFirstPurchase /\ last.res.referrerBonus
  /\ \E i \in RowOf(last.a.email) : \E j \in ReferrersOf(i) :
       /\ j # i
       /\ j \in 1..Len(seed.users)
       /\ users[j].points = seed.users[j].points + 1500
       /\ users[j].referral_count = seed.users[j].referral_count + 1
       /\ user_actions[Len(user_actions)] = BonusRow(j, i, last.a.orderId)

(***************************************************************************)
(* C15. For a user whose referral counter has reached a configured         *)
(* threshold, MilestoneRedeem calls for that user and threshold made one   *)
(* after another (the shop accepting the discount) succeed exactly once:   *)
(* the call that finds the threshold absent from the milestone ledger      *)
(* issues one free-product discount and records its code under the         *)
(* threshold; every later call fails with "Milestone already redeemed",    *)
(* issues nothing and leaves the ledger as it is.                          *)
(***************************************************************************)
LedgerCodes(ledger, m) == {e \in ledger : e[1] = m}

C15_MilestoneOnce ==
  [][\A i \in Rows :
       (/\ Operation("MilestoneRedeem")
        /\ last'.a.email = users[i].email
        /\ last'.a.milestonePoints \in {5, 10, 15}
        /\ users[i].referral_count >= last'.a.milestonePoints
        /\ ~last'.a.fail)
       => LET m == last'.a.milestonePoints
              ledger == users[i].referal_discount_code
          IN /\ LedgerCodes(ledger, m) = {}
                  => /\ last'.res.status = "ok"
                     /\ Len(discounts') = Len(discounts) + 1
                     /\ discounts'[Len(discounts')].code.kind = "MILESTONEFREE"
                     /\ last'.res.discountCode = discounts'[Len(discounts')].code
                     /\ users' = [users EXCEPT ![i].referal_discount_code =
                                    ledger \cup {<<m, last'.res.discountCode>>}]
             /\ LedgerCodes(ledger, m) # {}
                  => /\ Failed(last', "Milestone already redeemed")
                     /\ discounts' = discounts
                     /\ users' = users
             /\ user_actions' = user_actions
             /\ Cardinality(LedgerCodes(users'[i].referal_discount_code, m)) = 1
    ]_vars

\* the second MilestoneRedeem of threshold 5 was refused
C15_Witness ==
  /\ last.op = "MilestoneRedeem"
  /\ Failed(last, "Milestone already redeemed")
  /\ \E i \in RowOf(last.a.email) :
       /\ users[i].referral_count = 5
       /\ Cardinality(LedgerCodes(users[i].referal_discount_code, 5)) = 1
       /\ Len(discounts) = Len(seed.discounts) + 1

(***************************************************************************)
(* C16. MilestoneRedeem fails with "Invalid milestone" when no reward is   *)
(* configured for the threshold, with "User not found" when the threshold  *)
(* is configured and no user has the email, and with "You need <n>         *)
(* referrals to unlock this reward" when the user's referral counter is    *)
(* below the threshold; a failed call issues no discount and leaves every  *)
(* milestone ledger, and all else, unchanged.                              *)
(***************************************************************************)
Insufficient(m) ==
  CASE m = 5 -> "You need 5 referrals to unlock this reward"
    [] m = 10 -> "You need 10 referrals to unlock this reward"
    [] m = 15 -> "You need 15 referrals to unlock this reward"

C16_MilestoneRefused ==
  [][Operation("MilestoneRedeem")
       => LET m == last'.a.milestonePoints
              S == RowOf(last'.a.email)
              refused(message) ==
                /\ Failed(last', message)
                /\ users' = users /\ discounts' = discounts
                /\ user_actions' = user_actions
          IN /\ m \notin {5, 10, 15} => refused("Invalid milestone")
             /\ (m \in {5, 10, 15} /\ S = {}) => refused("User not found")
             /\ \A i \in S :
                  (m \in {5, 10, 15} /\ users[i].referral_count < m)
                  => refused(Insufficient(m))
    ]_vars

\* a user with five referrals asked for the reward of ten
C16_Witness ==
  /\ last.op = "MilestoneRedeem"
  /\ last.a.milestonePoints = 10
  /\ Failed(last, "You need 10 referrals to unlock this reward")
  /\ \E i \in RowOf(last.a.email) : users[i].referral_count = 5

\* The same for the thresholds that are numbers; and no MilestoneRedeem that
\* fails changes anything
MilestoneRefusedUnlessInherited ==
  [][Operation("MilestoneRedeem")
       => LET m == last'.a.milestonePoints
              S == RowOf(last'.a.email)
              unchanged == /\ users' = users /\ discounts' = discounts
                           /\ user_actions' = user_actions
          IN /\ m \notin {5, 10, 15, InheritedName}
                  => Failed(last', "Invalid milestone")
             /\ (m \in {5, 10, 15} /\ S = {}) => Failed(last', "User not found")
             /\ \A i \in S :
                  (m \in {5, 10, 15} /\ users[i].referral_count < m)
                  => Failed(last', Insufficient(m))
             /\ last'.res.status # "ok" => unchanged
             /\ m = InheritedName => last'.res.status = "error"
    ]_vars

\* the threshold "constructor", for which nothing is configured, was refused
\* as already redeemed
InheritedThresholdAlreadyRedeemed ==
  /\ last.op = "MilestoneRedeem"
  /\ last.a.milestonePoints = InheritedName
  /\ RowOf(last.a.email) # {}
  /\ Failed(last, "Milestone already redeemed")

(***************************************************************************)
(* C17. A Signup for an email and referral code that no user has yet       *)
(* succeeds, whatever referredBy is: it creates exactly one user with      *)
(* balance 5, the referral code and referredBy stored as given; a user     *)
(* whose referral code is referredBy gains exactly 5 points; when          *)
(* referredBy is absent or names no user, no other balance changes and     *)
(* the signup still succeeds.                                              *)
(***************************************************************************)
NewUser(uid, a) ==
  [user_id |-> uid, email |-> a.email, points |-> 5,
   referral_code |-> a.referralCode, referred_by |-> a.referredBy,
   last_discount_code |-> NoCode, discount_code_id |-> NullId,
   referral_count |-> 0, referal_discount_code |-> {},
   tier |-> NULL, total_spent |-> NullSpent]

Fresh(a) ==
  \A j \in Rows : users[j].email # a.email /\ users[j].referral_code # a.referralCode

SignupCreates(a) ==
  /\ Len(users') = Len(users) + 1
  /\ users'[Len(users')] = NewUser(Len(users) + 1, a)
  /\ \A j \in Rows :
       users'[j] = [users[j] EXCEPT !.points =
                      @ + (IF users[j].referral_code = a.referredBy THEN 5 ELSE 0)]
  /\ user_actions' = user_actions

C17_SignupEffect ==
  [][Operation("Signup")
       => /\ Fresh(last'.a) => last'.res.status = "ok"
          /\ last'.res.status = "ok" => SignupCreates(last'.a)
    ]_vars

\* The same for every referredBy that fits the referred_by column
SignupEffectWhenStorable ==
  [][(Operation("Signup") /\ last'.a.referredBy # Overlong)
       => /\ Fresh(last'.a) => last'.res.status = "ok"
          /\ last'.res.status = "ok" => SignupCreates(last'.a)
    ]_vars

(***************************************************************************)
(* C18. A failing best-effort collaborator neither fails the operation nor *)
(* alters its ledger effect: a Signup whose welcome discount is refused,   *)
(* and a CancelRedeem or MarkDiscountUsed whose deactivation throws, end   *)
(* with the result, the users and the Actions that the same call has when  *)
(* the collaborator succeeds - except that the Signup returns no welcome   *)
(* code and mints no discount.                                             *)
(***************************************************************************)
CollaboratorFails(r) ==
  \/ r.op = "Signup" /\ r.a.fail
  \/ r.op \in {"CancelRedeem", "MarkDiscountUsed"} /\ r.a.deactFail

\* the same call, the collaborator succeeding
Succeeding(r) ==
  NewReq(r.op, IF r.op = "Signup" THEN [r.a EXCEPT !.fail = FALSE]
               ELSE [r.a EXCEPT !.deactFail = FALSE])

SignupWithoutWelcomeCode ==
  /\ last.op = "Signup" /\ last.a.fail /\ last.a.referredBy # NULL
  /\ last.res.status = "ok"
  /\ last.res.welcomeDiscountCode = NoCode
  /\ users[Len(users)].email = last.a.email

\* a MarkDiscountUsed emptied the slot although the discount stayed active
MarkUsedWithoutDeactivation ==
  /\ last.op = "MarkDiscountUsed" /\ last.a.deactFail
  /\ last.res.status = "ok"
  /\ discounts[last.user.discount_code_id].active
  /\ \E i \in RowOf(last.a.email) : Slot(users[i]) = EmptySlot

(***************************************************************************)
(* C19. ProcessPurchase for an email that no user has returns the skipped  *)
(* result "User not in referral program" (not an error) and changes        *)
(* nothing: no user created, no Action appended, no balance, counter or    *)
(* slot of any user modified, also when the order lists reward codes that  *)
(* other users hold.                                                       *)
(***************************************************************************)
C19_UnknownPurchaserSkipped ==
  [][(Operation("ProcessPurchase") /\ RowOf(last'.a.email) = {})
       => /\ last'.res = [status |-> "skipped",
                          reason |-> "User not in referral program"]
          /\ users' = users
          /\ user_actions' = user_actions
          /\ discounts' = discounts
    ]_vars

\* the skipped order listed the code that another user holds
C19_Witness ==
  /\ last.op = "ProcessPurchase"
  /\ last.res = [status |-> "skipped", reason |-> "User not in referral program"]
  /\ RowOf(last.a.email) = {}
  /\ \E i \in Rows :
       /\ users[i].last_discount_code # NoCode
       /\ Lists(last.a.discountCodes, users[i].last_discount_code)

(***************************************************************************)
(* C20. A ProcessPurchase that is not skipped credits the purchaser        *)
(* exactly floor(orderTotal x pointsPerDollar) points, pointsPerDollar     *)
(* being that of the highest tier whose threshold the spend reported by    *)
(* the shop reaches; it appends one purchase Action with that delta and    *)
(* the reference order_<orderId>, and stores the tier's name and the spend *)
(* on the user.  (Order totals are in cents.)                              *)
(***************************************************************************)
TierOf(spend) ==
  LET reached == {k \in 1..Len(TIERS) : TIERS[k].minSpent <= spend}
  IN TIERS[CHOOSE k \in reached : \A l \in reached : l <= k]

Floor(cents) == cents \div 100

PurchaseRow(uid, points, orderId) ==
  [user_id |-> uid, action_type |-> "shopify_purchase", points_awarded |-> points,
   action_ref |-> [kind |-> "order", order |-> orderId]]

C20_PurchasePoints ==
  [][\A i \in Rows :
       (/\ Operation("ProcessPurchase")
        /\ last'.a.email = users[i].email
        /\ last'.res.status # "skipped")
       => LET tier == TierOf(last'.a.totalSpent)
              earned == Floor(last'.a.orderTotal * tier.pointsPerDollar)
              bonus == IF i \in ReferrersOf(i) /\ PurchasesOf(user_actions, i) = {}
                       THEN 1500 ELSE 0
              added == {k \in PurchasesOf(user_actions', i) : k > Len(user_actions)}
          IN /\ last'.res.status = "ok"
             /\ last'.res.pointsAwarded = earned
             /\ users'[i].points = users[i].points + earned + bonus
             /\ Cardinality(added) = 1
             /\ \A k \in added :
                  user_actions'[k] = PurchaseRow(i, earned, last'.a.orderId)
             /\ users'[i].tier = tier.name
             /\ users'[i].total_spent = last'.a.totalSpent
    ]_vars

\* an order of 20.50 earned 143 points in the tier of 7 points per dollar
C20_Witness ==
  /\ last.op = "ProcessPurchase" /\ last.res.status = "ok"
  /\ last.a.orderTotal = 2050 /\ last.a.totalSpent = 500
  /\ last.res.pointsAwarded = 143
  /\ \E i \in RowOf(last.a.email) :
       /\ users[i].tier = "Silver" /\ users[i].total_spent = 500
       /\ \E k \in 1..Len(user_actions) :
            user_actions[k] = PurchaseRow(i, 143, last.a.orderId)

(***************************************************************************)
(* C21. For each discount code of a processed purchase that starts with    *)
(* POINTS or MILESTONEFREE_ and that some user - the purchaser or anyone   *)
(* else - holds as outstanding, ProcessPurchase empties that holder's slot *)
(* and, the parser extracting a tier value from the code, appends for the  *)
(* holder one Action (discount_tier_used, 0, reference tier_<value>).  The *)
(* handling changes no balance: the holder's balance moves only by what    *)
(* the purchase itself earns the holder (the purchase points if the holder *)
(* is the purchaser, the first-purchase bonus if the holder referred the   *)
(* purchaser), so a holder at balance 0 stays at 0.                        *)
(***************************************************************************)
TierUsedRow(uid, points) ==
  [user_id |-> uid, action_type |-> "discount_tier_used", points_awarded |-> 0,
   action_ref |-> [kind |-> "tier", points |-> points]]

\* the users holding a reward code that the order lists
HoldersListed(codes) ==
  {h \in Rows : /\ users[h].last_discount_code # NoCode
                /\ users[h].last_discount_code.kind \in {"POINTS", "MILESTONEFREE"}
                /\ Lists(codes, users[h].last_discount_code)}

C21_UsedCodeCleared ==
  [][\A i \in Rows :
       (/\ Operation("ProcessPurchase")
        /\ last'.a.email = users[i].email
        /\ last'.res.status = "ok")
       => LET first == PurchasesOf(user_actions, i) = {}
              earns(h) == (IF h = i THEN last'.res.pointsAwarded ELSE 0)
                            + (IF first /\ h \in ReferrersOf(i) THEN 1500 ELSE 0)
              markers == {k \in 1..Len(user_actions') :
                            /\ k > Len(user_actions)
                            /\ user_actions'[k].action_type = "discount_tier_used"}
          IN /\ \A h \in HoldersListed(last'.a.discountCodes) :
                  LET code == users[h].last_discount_code
                  IN /\ Slot(users'[h]) = EmptySlot
                     /\ users'[h].points = users[h].points + earns(h)
                     /\ code.kind = "POINTS"
                          => Cardinality({k \in markers : user_actions'[k]
                                            = TierUsedRow(h, code.value)}) = 1
             /\ Cardinality(markers)
                  = Cardinality(HoldersListed(last'.a.discountCodes))
    ]_vars

\* a user who redeemed the whole balance is still at 0 after another user's
\* order used the code: slot empty, the marker appended last
C21_Witness ==
  /\ last.op = "ProcessPurchase" /\ last.res.status = "ok"
  /\ \E h \in Rows :
       /\ users[h].email # last.a.email
       /\ users[h].points = 0
       /\ Slot(users[h]) = EmptySlot
       /\ Lists(last.a.discountCodes, last.other.last_discount_code)
       /\ last.other.user_id = h
       /\ user_actions[Len(user_actions)] = TierUsedRow(h, 5)

(***************************************************************************)
(* Observations of a call of SpecPure.                                     *)
(***************************************************************************)
TierCall == call.fn = "getTierForSpent" /\ Returned
ParseCall == call.fn = "parseDiscountTierFromCode" /\ Returned

\* the positions of the tiers whose threshold the spend reaches
Reached(tiers, spend) == {k \in 1..Len(tiers) : tiers[k].minSpent <= spend}

Ascending(tiers) ==
  \A k, l \in 1..Len(tiers) : k < l => tiers[k].minSpent <= tiers[l].minSpent

(***************************************************************************)
(* C22. Over a non-empty tier list in ascending order of threshold,        *)
(* getTierForSpent returns the highest tier whose threshold is <= the      *)
(* spend, and the first (base) tier when the spend is below every          *)
(* threshold; whatever the spend, the value returned is a tier of the      *)
(* list.                                                                   *)
(***************************************************************************)
C22_HighestTierReached ==
  (TierCall /\ call.args.tiers # <<>> /\ Ascending(call.args.tiers))
  => LET tiers == call.args.tiers
         reached == Reached(tiers, call.args.totalSpent)
     IN /\ \E k \in 1..Len(tiers) : call.result = tiers[k]
        /\ reached = {} => call.result = tiers[1]
        /\ reached # {} => /\ call.result.minSpent <= call.args.totalSpent
                           /\ \A k \in reached :
                                tiers[k].minSpent <= call.result.minSpent

\* a spend between the second and the third threshold gave the second tier
C22_Witness ==
  /\ TierCall
  /\ Len(call.args.tiers) = 3
  /\ call.args.totalSpent = 999
  /\ call.result = call.args.tiers[2]

\* a spend below every threshold gave the base tier
BaseTierBelowEveryThreshold ==
  /\ TierCall
  /\ call.args.tiers # <<>>
  /\ Reached(call.args.tiers, call.args.totalSpent) = {}
  /\ call.result = call.args.tiers[1]

(***************************************************************************)
(* C23. getTierForSpent is monotonic non-decreasing in the spend (for      *)
(* spends s1 <= s2 the tier of s1 is not above the tier of s2 in the       *)
(* list), returns the base tier for a spend of 0, and returns a tier -     *)
(* the base tier - also when the configured list is empty.                 *)
(***************************************************************************)
IsTier(t) == {"name", "pointsPerDollar"} \subseteq DOMAIN t

Position(tiers, t) ==
  CHOOSE k \in 1..Len(tiers) : tiers[k] = t /\ \A l \in 1..(k - 1) : tiers[l] # t

Monotonic ==
  \A s2 \in SpendInputs :
    call.args.totalSpent <= s2
    => Position(call.args.tiers, call.result)
         <= Position(call.args.tiers, getTierForSpentIn(call.args.tiers, s2))

C23_TierMonotonic ==
  TierCall
  => /\ IsTier(call.result)
     /\ call.args.tiers # <<>>
          => /\ Monotonic
             /\ call.args.totalSpent = 0 => call.result = call.args.tiers[1]

\* The same for every list that holds a tier
TierMonotonicOverTiers ==
  (TierCall /\ call.args.tiers # <<>>)
  => /\ IsTier(call.result)
     /\ Monotonic
     /\ call.args.totalSpent = 0 => call.result = call.args.tiers[1]

\* the list is empty and the value returned is tiers[0], no tier
NoTierOfEmptyList ==
  /\ TierCall
  /\ call.args.tiers = <<>>
  /\ call.result = Undefined

(***************************************************************************)
(* C24. parseDiscountTierFromCode returns 100 x d for a code in which      *)
(* POINTS<d>CAD_ occurs, d a decimal dollar amount (1250 for               *)
(* POINTS12.5CAD_AB3F9), and null for every other code (null for           *)
(* MILESTONEFREE_X9Z12).                                                   *)
(***************************************************************************)
AllDigits(t) == t # <<>> /\ \A x \in 1..Len(t) : IsDigit(t[x])

\* digits, or digits '.' digits
IsDecimal(t) ==
  \/ AllDigits(t)
  \/ \E k \in 2..(Len(t) - 1) :
       /\ t[k] = "."
       /\ AllDigits(SubSeq(t, 1, k - 1))
       /\ AllDigits(SubSeq(t, k + 1, Len(t)))

\* the decimals d such that POINTS d CAD_ occurs in the text
Embedded(text) ==
  {SubSeq(text, ij[1], ij[2]) :
     ij \in {x \in (1..Len(text)) \X (1..Len(text)) :
               /\ x[1] <= x[2]
               /\ x[1] > 6
               /\ SubSeq(text, x[1] - 6, x[1] - 1) = <<"P", "O", "I", "N", "T", "S">>
               /\ x[2] + 4 <= Len(text)
               /\ SubSeq(text, x[2] + 1, x[2] + 4) = <<"C", "A", "D", "_">>
               /\ IsDecimal(SubSeq(text, x[1], x[2]))}}

\* 100 x d for a decimal of at most two decimals
RECURSIVE Value(_)
Value(digits) ==
  IF digits = <<>> THEN 0
  ELSE 10 * Value(SubSeq(digits, 1, Len(digits) - 1)) + Digit[digits[Len(digits)]]

HundredTimes(d) ==
  LET dot == {k \in 1..Len(d) : d[k] = "."}
  IN IF dot = {} THEN 100 * Value(d)
     ELSE LET k == CHOOSE k \in dot : TRUE
              decimals == SubSeq(d, k + 1, Len(d))
          IN 100 * Value(SubSeq(d, 1, k - 1))
               + (IF Len(decimals) = 1 THEN 10 ELSE 1) * Value(decimals)

Integer(n) == [points |-> n, ulps |-> 0]

C24_TierPointsFromCode ==
  ParseCall
  => LET ds == Embedded(call.args.code)
     IN /\ ds = {} => call.result = Null
        /\ ds # {} => \E d \in ds : call.result = Integer(HundredTimes(d))

\* The same up to the rounding of the product: the value returned is within
\* one unit in the last place of 100 x d
TierPointsUpToRounding ==
  ParseCall
  => LET ds == Embedded(call.args.code)
     IN /\ ds = {} => call.result = Null
        /\ ds # {} => \E d \in ds :
                        /\ call.result.points = HundredTimes(d)
                        /\ call.result.ulps \in {0 - 1, 0, 1}

\* POINTS12.5CAD_AB3F9 gave 1250
TwelveFifty ==
  /\ ParseCall
  /\ call.args.code = <<"P", "O", "I", "N", "T", "S", "1", "2", ".", "5",
                        "C", "A", "D", "_", "A", "B", "3", "F", "9">>
  /\ call.result = Integer(1250)

\* MILESTONEFREE_X9Z12 gave null
MilestoneCodeGivesNull ==
  /\ ParseCall
  /\ call.args.code = T_MILESTONE
  /\ call.result = Null

\* POINTS0.07CAD_AB3F9 gave 7.000000000000001
SevenCents ==
  /\ ParseCall
  /\ call.args.code = <<"P", "O", "I", "N", "T", "S", "0", ".", "0", "7",
                        "C", "A", "D", "_", "A", "B", "3", "F", "9">>
  /\ call.result = [points |-> 7, ulps |-> 1]

(***************************************************************************)
(* C25. The Action log is append-only: every Action row present in a state *)
(* is present at the same place with the same user, type, points delta and *)
(* reference in every later state; no operation changes, deletes or        *)
(* reassigns a row, and the user a row belongs to keeps the id and the     *)
(* email.                                                                  *)
(***************************************************************************)
C25_ActionsAppendOnly ==
  [][/\ Len(user_actions') >= Len(user_actions)
     /\ \A k \in 1..Len(user_actions) : user_actions'[k] = user_actions[k]
     /\ Len(users') >= Len(users)
     /\ \A i \in Rows : /\ users'[i].user_id = users[i].user_id
                        /\ users'[i].email = users[i].email
    ]_vars

\* two operations appended rows to a log that already held rows, all of
\* which are still there
C25_Witness ==
  /\ nops = 2
  /\ seed.user_actions # <<>>
  /\ Len(user_actions) >= Len(seed.user_actions) + 3
  /\ SubSeq(user_actions, 1, Len(seed.user_actions)) = seed.user_actions
  /\ \E k \in 1..Len(user_actions) :
       /\ k > Len(seed.user_actions)
       /\ user_actions[k].action_type = "shopify_purchase"
       /\ \E l \in 1..Len(seed.user_actions) :
            /\ seed.user_actions[l].action_type = "shopify_purchase"
            /\ seed.user_actions[l].user_id # user_actions[k].user_id

(***************************************************************************)
(* C26. AwardPoints fails with "Invalid action type" when the action is    *)
(* not one of the configured ones - whether or not a user has the email -  *)
(* and with "User not found" when the action is configured and no user has *)
(* the email; in both cases no balance changes and no Action is appended.  *)
(***************************************************************************)
Configured == {"social_media_follow", "share"}

NothingChanges ==
  users' = users /\ user_actions' = user_actions /\ discounts' = discounts

C26_AwardRefused ==
  [][Operation("AwardPoints")
       => /\ last'.a.action \notin Configured
               => Failed(last', "Invalid action type") /\ NothingChanges
          /\ (last'.a.action \in Configured /\ RowOf(last'.a.email) = {})
               => Failed(last', "User not found") /\ NothingChanges
    ]_vars

\* The same for the actions that are no property name of Object.prototype;
\* and no AwardPoints that fails changes anything
AwardRefusedUnlessInherited ==
  [][Operation("AwardPoints")
       => /\ last'.a.action \notin (Configured \cup ObjectPrototypeKeys)
               => Failed(last', "Invalid action type") /\ NothingChanges
          /\ (last'.a.action \in Configured /\ RowOf(last'.a.email) = {})
               => Failed(last', "User not found") /\ NothingChanges
          /\ last'.res.status # "ok" => NothingChanges
    ]_vars

\* AwardPoints with the action "constructor" for a user that exists failed
\* in the database, not with "Invalid action type"
InheritedActionReachesDatabase ==
  /\ last.op = "AwardPoints"
  /\ last.a.action = "constructor"
  /\ RowOf(last.a.email) # {}
  /\ Failed(last, "22P02")

(***************************************************************************)
(* C27. An AwardPoints that succeeds raises the user's balance by exactly  *)
(* the configured value of the action (50 for social_media_follow, 5 for   *)
(* share), appends exactly one Action of that type with that delta and no  *)
(* reference, returns the points awarded and the new balance, and changes  *)
(* nothing else: no other user, no slot, counter or milestone field, no    *)
(* discount.                                                               *)
(***************************************************************************)
AwardRow(uid, action, points) ==
  [user_id |-> uid, action_type |-> action, points_awarded |-> points,
   action_ref |-> NoRef]

C27_AwardEffect ==
  [][\A i \in Rows :
       (/\ Operation("AwardPoints")
        /\ last'.a.email = users[i].email
        /\ last'.res.status = "ok")
       => LET action == last'.a.action
              value == IF action = "social_media_follow" THEN 50 ELSE 5
          IN /\ action \in {"social_media_follow", "share"}
             /\ users' = [users EXCEPT ![i].points = @ + value]
             /\ user_actions' = Append(user_actions, AwardRow(i, action, value))
             /\ last'.res.pointsAwarded = value
             /\ last'.res.newPoints = users[i].points + value
             /\ discounts' = discounts
    ]_vars

\* a user who holds a code was awarded 50 points for following
C27_Witness ==
  /\ last.op = "AwardPoints" /\ last.res.status = "ok"
  /\ last.a.action = "social_media_follow"
  /\ nops = 1
  /\ \E i \in RowOf(last.a.email) :
       /\ users[i].points = seed.users[i].points + 50
       /\ Slot(users[i]) # EmptySlot
       /\ last.res.newPoints = users[i].points
       /\ user_actions[Len(user_actions)] = AwardRow(i, "social_media_follow", 50)
       /\ Len(user_actions) = Len(seed.user_actions) + 1

(***************************************************************************)
(* C28. In every reachable state, also while and after Signups overlap, no *)
(* two users share an email and no two users share a referral code; the    *)
(* step of a Signup that would insert an email or a referral code that a   *)
(* user already has is rejected (error 23505) and creates no user, and a   *)
(* step that creates a user creates one whose email and referral code no   *)
(* user had.                                                               *)
(***************************************************************************)
UniqueUsers ==
  \A i, j \in Rows :
    i # j => /\ users[i].email # users[j].email
             /\ users[i].referral_code # users[j].referral_code

\* request r is at its INSERT and this step executes it
Inserts(r) ==
  /\ r.op = "Signup" /\ r.pc = "createUser"
  /\ CopiesIn(r, reqs') < CopiesIn(r, reqs)

Taken(a) ==
  \E i \in Rows : users[i].email = a.email \/ users[i].referral_code = a.referralCode

C28_UniqueIdentity ==
  /\ []UniqueUsers
  /\ [][\A r \in BagToSet(reqs) :
          Inserts(r)
          => IF Taken(r.a)
             THEN /\ users' = users
                  /\ \E r2 \in BagToSet(reqs') :
                       /\ r2.a = r.a /\ r2.op = "Signup"
                       /\ Failed(r2, "23505")
             ELSE /\ Len(users') = Len(users) + 1
                  /\ users'[Len(users')].email = r.a.email
                  /\ users'[Len(users')].referral_code = r.a.referralCode
                  /\ \A i \in Rows : users'[i] = users[i]
       ]_vars

\* two Signups for one email were in flight together: one created the user,
\* the other is rejected
C28_Witness ==
  /\ seed = EmptyWorld
  /\ \E r1, r2 \in BagToSet(reqs) :
       /\ r1.op = "Signup" /\ r2.op = "Signup"
       /\ r1.a.email = r2.a.email
       /\ r1.a.referralCode # r2.a.referralCode
       /\ r1.pc = "done" /\ r1.res.status = "ok"
       /\ Failed(r2, "23505")
       /\ Cardinality({i \in Rows : users[i].email = r1.a.email}) = 1
       /\ Len(users) = 1

(***************************************************************************)
(* C29. A Redeem for a user whose slot already holds a code is not         *)
(* rejected: the balance sufficing and the shop accepting, it deducts the  *)
(* points again, appends the redemption Action, mints a second code and    *)
(* overwrites the slot with it.  The previous code is neither deactivated  *)
(* nor refunded: its discount stays as it was in the shop, and no user     *)
(* record holds it any more - two codes minted, the latest one recorded.   *)
(***************************************************************************)
C29_RedeemOverwritesSlot ==
  [][\A i \in Rows :
       (/\ Operation("Redeem")
        /\ last'.a.email = users[i].email
        /\ Slot(users[i]) # EmptySlot
        /\ users[i].points >= last'.a.pointsToRedeem
        /\ ~last'.a.fail)
       => LET p == last'.a.pointsToRedeem
              old == users[i].last_discount_code
              new == discounts'[Len(discounts')].code
          IN /\ last'.res.status = "ok"
             /\ Len(discounts') = Len(discounts) + 1
             /\ \A k \in 1..Len(discounts) : discounts'[k] = discounts[k]
             /\ new # old
             /\ last'.res.discountCode = new
             /\ users' = [users EXCEPT ![i].points = @ - p,
                                       ![i].last_discount_code = new,
                                       ![i].discount_code_id = new.id]
             /\ \A j \in Rows : users'[j].last_discount_code # old
             /\ user_actions' = Append(user_actions, RedeemRow(i, p))
    ]_vars

\* the user held code 1, redeemed again and holds code 2; code 1 is still
\* active in the shop and its points were not given back
C29_Witness ==
  /\ last.op = "Redeem" /\ last.res.status = "ok"
  /\ nops = 1
  /\ \E i \in RowOf(last.a.email) :
       LET old == seed.users[i].last_discount_code
       IN /\ old # NoCode
          /\ users[i].last_discount_code # old
          /\ users[i].last_discount_code = discounts[Len(discounts)].code
          /\ Len(discounts) = Len(seed.discounts) + 1
          /\ discounts[old.id].active
          /\ users[i].points = seed.users[i].points - last.a.pointsToRedeem

(***************************************************************************)
(* C30. A Signup for an email that a user already has fails and changes no *)
(* user's balance: the existing user whose referral code is referredBy is  *)
(* not credited the signup-referral bonus by the failed attempt, however   *)
(* often the attempt is repeated.                                          *)
(***************************************************************************)
Registered(email) == \E i \in Rows : users[i].email = email

C30_FailedSignupCreditsNobody ==
  [][(Operation("Signup") /\ Registered(last'.a.email))
       => /\ last'.res.status = "error"
          /\ Len(users') = Len(users)
          /\ \A j \in Rows : users'[j].points = users[j].points
    ]_vars

\* What holds: the attempt fails and creates no user, and it changes nothing
\* at all when referredBy is absent or is no user's referral code
FailedSignupWithoutReferrer ==
  [][(Operation("Signup") /\ Registered(last'.a.email))
       => /\ last'.res.status = "error"
          /\ Len(users') = Len(users)
          /\ user_actions' = user_actions /\ discounts' = discounts
          /\ (\A j \in Rows : users[j].referral_code # last'.a.referredBy)
               => users' = users
          /\ \A j \in Rows :
               users'[j] = [users[j] EXCEPT !.points =
                              @ + (IF users[j].referral_code = last'.a.referredBy
                                   THEN 5 ELSE 0)]
    ]_vars

\* two rejected Signups in a row raised the referrer's balance by 10
RepeatedSignupCreditsReferrer ==
  /\ nops = 2
  /\ last.op = "Signup" /\ Failed(last, "23505")
  /\ Len(users) = Len(seed.users)
  /\ user_actions = seed.user_actions
  /\ \E j \in Rows :
       /\ users[j].referral_code = last.a.referredBy
       /\ users[j].email # last.a.email
       /\ users[j].points = seed.users[j].points + 10

(***************************************************************************)
(* Observations of overlapping requests of one user.                       *)
(***************************************************************************)
\* every request issued has returned or thrown
Quiescent == nops > 0 /\ InFlight = {}

\* the requests of SpecConc of one operation that name the email
RequestsOf(op, email) ==
  {r \in BagToSet(reqs) : r.op = op /\ r.a.email = email}

\* users of the initial database
SeedRows == 1..Len(seed.users)

(***************************************************************************)
(* C31. Two AwardPoints calls for one user with two different whitelisted  *)
(* actions, neither claimed before, in any interleaving: both succeed, and *)
(* when both have returned the user's balance is the initial balance plus  *)
(* the values of both actions (50 + 5).                                    *)
(***************************************************************************)
BothAwards(i) ==
  /\ Quiescent
  /\ \E r1, r2 \in RequestsOf("AwardPoints", users[i].email) :
       r1.a.action = "social_media_follow" /\ r2.a.action = "share"

C31_NoLostCredit ==
  \A i \in SeedRows :
    BothAwards(i)
    => /\ \A r \in RequestsOf("AwardPoints", users[i].email) : r.res.status = "ok"
       /\ users[i].points = seed.users[i].points + 50 + 5

\* What holds: both calls succeed and both Actions are appended; the balance
\* is the initial balance plus the values of both actions, or of one of them
BothAwardsRecorded ==
  \A i \in SeedRows :
    BothAwards(i)
    => /\ \A r \in RequestsOf("AwardPoints", users[i].email) : r.res.status = "ok"
       /\ Cardinality(ActionsOfType(user_actions, i, "social_media_follow")) = 1
       /\ Cardinality(ActionsOfType(user_actions, i, "share")) = 1
       /\ users[i].points - seed.users[i].points \in {5, 50, 55}

\* both calls succeeded, both Actions are in the log, and 50 points are
\* missing from the balance
AwardLost ==
  \E i \in SeedRows :
    /\ BothAwards(i)
    /\ \A r \in RequestsOf("AwardPoints", users[i].email) : r.res.status = "ok"
    /\ ActionsOfType(user_actions, i, "social_media_follow") # {}
    /\ ActionsOfType(user_actions, i, "share") # {}
    /\ users[i].points = seed.users[i].points + 5

(***************************************************************************)
(* C32. A credit to a user's balance - AwardPoints, the points of a        *)
(* purchase, or a first-purchase referral bonus - that has completed while *)
(* a Redeem of that user is between its deduction and its last statement   *)
(* (the discount being issued) survives the Redeem: the statement that     *)
(* stores the code, the external id and the balance leaves the balance as  *)
(* the credit left it.                                                     *)
(***************************************************************************)
\* this step executes the await at which request r stands
Executes(r) == CopiesIn(r, reqs') < CopiesIn(r, reqs)

\* the balance of user uid is the one a completed credit wrote
CreditStands(uid) ==
  \E c \in BagToSet(reqs) :
    /\ c.pc = "done" /\ c.res.status = "ok"
    /\ \/ /\ c.op \in {"AwardPoints", "ProcessPurchase"}
          /\ c.user.user_id = uid
          /\ c.newPoints = users[uid].points
       \/ /\ c.op = "ProcessPurchase" /\ c.res.referrerBonus
          /\ c.other.user_id = uid
          /\ c.other.points + 1500 = users[uid].points

C32_RedeemKeepsCredit ==
  [][\A r \in BagToSet(reqs) :
       (/\ r.op = "Redeem" /\ r.pc = "updateUserDiscountCode" /\ Executes(r)
        /\ CreditStands(r.user.user_id)
        /\ users[r.user.user_id].points > r.newPoints)
       => users'[r.user.user_id].points = users[r.user.user_id].points
    ]_vars

\* What holds: the last statement of Redeem stores the balance that Redeem
\* computed before its deduction, whatever the balance is by then
RedeemStoresItsOwnBalance ==
  [][\A r \in BagToSet(reqs) :
       (r.op = "Redeem" /\ r.pc = "updateUserDiscountCode" /\ Executes(r))
       => /\ users'[r.user.user_id].points = r.newPoints
          /\ users'[r.user.user_id].last_discount_code = r.code
          /\ user_actions' = user_actions
    ]_vars

\* an AwardPoints that read the balance after the deduction has returned
\* while the Redeem is waiting for its discount: the balance holds the 50
CreditWhileAwaitingIssuance ==
  \E r, c \in BagToSet(reqs) :
    /\ r.op = "Redeem" /\ r.pc = "createDiscountCode"
    /\ c.op = "AwardPoints" /\ c.pc = "done" /\ c.res.status = "ok"
    /\ c.user.user_id = r.user.user_id
    /\ c.user.points = r.newPoints
    /\ users[r.user.user_id].points = r.newPoints + 50

\* both have returned, the award Action is in the log, and the balance is
\* the one of the Redeem alone
CreditOverwritten ==
  /\ Quiescent
  /\ \E r, c \in BagToSet(reqs) :
       /\ r.op = "Redeem" /\ r.res.status = "ok"
       /\ c.op = "AwardPoints" /\ c.res.status = "ok"
       /\ c.user.user_id = r.user.user_id
       /\ c.user.points = r.newPoints
       /\ ActionsOfType(user_actions, c.user.user_id, c.a.action) # {}
       /\ users[r.user.user_id].points = r.newPoints
       /\ users[r.user.user_id].last_discount_code = r.code

(***************************************************************************)
(* C33. Overlapping Redeems of one user, no other request running: in      *)
(* every state the pointsToRedeem of the Redeems that were issued a        *)
(* discount code add up to at most the points deducted from the balance;   *)
(* so two Redeems whose pointsToRedeem together exceed the balance are not *)
(* both issued a code.                                                     *)
(***************************************************************************)
\* the Redeems for the email that hold a discount code minted for them
Issued(email) ==
  {r \in RequestsOf("Redeem", email) :
     \/ r.pc = "updateUserDiscountCode"
     \/ r.pc = "done" /\ r.res.status = "ok"}

RECURSIVE PointsRedeemed(_)
PointsRedeemed(S) ==
  IF S = {} THEN 0
  ELSE LET r == CHOOSE x \in S : TRUE
       IN CopiesIn(r, reqs) * r.a.pointsToRedeem + PointsRedeemed(S \ {r})

OnlyRedeemsOf(email) ==
  nops > 0 /\ \A r \in BagToSet(reqs) : r.op = "Redeem" /\ r.a.email = email

C33_RedeemsWithinBalance ==
  \A i \in SeedRows :
    OnlyRedeemsOf(users[i].email)
    => /\ PointsRedeemed(Issued(users[i].email))
            <= seed.users[i].points - users[i].points
       /\ PointsRedeemed(RequestsOf("Redeem", users[i].email)) > seed.users[i].points
            => Copies(Issued(users[i].email)) <= 1

\* What holds: each Redeem that was issued a code had read a balance that
\* covers its own pointsToRedeem, and the balance is what one of them wrote
EachRedeemCoveredAlone ==
  \A i \in SeedRows :
    OnlyRedeemsOf(users[i].email)
    => /\ \A r \in Issued(users[i].email) : r.user.points >= r.a.pointsToRedeem
       /\ users[i].points >= 0
       /\ Issued(users[i].email) # {}
            => \E r \in RequestsOf("Redeem", users[i].email) :
                 users[i].points = r.newPoints

\* a user with 5 points: two Redeems of 5 both returned a code, two discounts
\* were minted, 5 points were deducted
TwoCodesForFivePoints ==
  \E i \in SeedRows :
    /\ OnlyRedeemsOf(users[i].email) /\ Quiescent
    /\ seed.users[i].points = 5
    /\ Copies(Issued(users[i].email)) = 2
    /\ Len(discounts) = Len(seed.discounts) + 2
    /\ users[i].points = 0

(***************************************************************************)
(* C34. CancelRedeem calls of one user, overlapping or not, no other       *)
(* request running: for the one code the user holds the balance rises by   *)
(* at most one pointsToRefund (5), and it does not rise at all for a user  *)
(* who holds no code.                                                      *)
(***************************************************************************)
OnlyCancelsOf(email) ==
  nops > 0 /\ \A r \in BagToSet(reqs) : r.op = "CancelRedeem" /\ r.a.email = email

C34_OneRefundPerCode ==
  \A i \in SeedRows :
    OnlyCancelsOf(users[i].email)
    => users[i].points - seed.users[i].points
         <= (IF seed.users[i].last_discount_code # NoCode THEN 5 ELSE 0)

\* What holds: no refund without a code; the balance rises by at most one
\* pointsToRefund per CancelRedeem that found the code in the slot; once all
\* have returned and one succeeded, the slot is empty
RefundsNeedTheCode ==
  \A i \in SeedRows :
    OnlyCancelsOf(users[i].email)
    => LET found == {r \in RequestsOf("CancelRedeem", users[i].email) :
                       r.user # NoUser /\ r.res.status # "error"}
       IN /\ seed.users[i].last_discount_code = NoCode
               => users[i].points = seed.users[i].points
          /\ users[i].points - seed.users[i].points <= 5 * Copies(found)
          /\ users[i].points >= seed.users[i].points
          /\ (Quiescent /\ found # {}) => Slot(users[i]) = EmptySlot

\* one code, two CancelRedeems: the second read the user after the first
\* had written its refund and before it emptied the slot; both succeeded
\* and the balance rose by 10
DoubleRefund ==
  \E i \in SeedRows :
    /\ OnlyCancelsOf(users[i].email) /\ Quiescent
    /\ Copies(Succeeded("CancelRedeem")) = 2
    /\ \E r \in Succeeded("CancelRedeem") :
         r.user.points = seed.users[i].points + 5
           /\ r.user.last_discount_code = seed.users[i].last_discount_code
    /\ users[i].points = seed.users[i].points + 10
    /\ Len(discounts) = Len(seed.discounts)

(***************************************************************************)
(* C35. Once the use of a reward code has been recorded - MarkDiscountUsed *)
(* or a ProcessPurchase listing the code has emptied the holder's slot -   *)
(* no CancelRedeem refunds points for that code: the refund statement of a *)
(* CancelRedeem that had read the user while the code was still in the     *)
(* slot does not raise the balance when it runs after the recording.       *)
(***************************************************************************)
\* a request has emptied the slot of user uid because code was used
UsageRecorded(uid, code) ==
  /\ users[uid].last_discount_code # code
  /\ \E m \in BagToSet(reqs) :
       \/ /\ m.op = "MarkDiscountUsed"
          /\ m.a.usedCode = code /\ m.user.user_id = uid
          /\ m.pc = "deactivateDiscount" \/ (m.pc = "done" /\ m.res.status = "ok")
       \/ /\ m.op = "ProcessPurchase"
          /\ Lists(m.a.discountCodes, code)
          /\ m.pc \in {"used.createAction", "bonus.findUserByReferralCode",
                       "bonus.updateUserPointsById", "bonus.incrementReferralCount",
                       "bonus.createAction", "done"}
          /\ m.k > 0

C35_NoRefundForUsedCode ==
  [][\A r \in BagToSet(reqs) :
       (/\ r.op = "CancelRedeem" /\ r.pc = "updateUserPoints" /\ Executes(r)
        /\ UsageRecorded(r.user.user_id, r.user.last_discount_code))
       => users'[r.user.user_id].points <= users[r.user.user_id].points
    ]_vars

\* What holds: a CancelRedeem that reads the user after the recording is
\* refused and changes nothing
CancelAfterUseRefused ==
  [][\A r \in BagToSet(reqs) : \A i \in Rows :
       (/\ r.op = "CancelRedeem" /\ r.pc = "findUserByEmail" /\ Executes(r)
        /\ users[i].email = r.a.email
        /\ users[i].last_discount_code = NoCode)
       => /\ \E r2 \in BagToSet(reqs') :
               r2.a = r.a /\ Failed(r2, "No active discount to cancel")
          /\ users' = users /\ user_actions' = user_actions
          /\ discounts' = discounts
    ]_vars

\* MarkDiscountUsed has returned for the code while a CancelRedeem that read
\* the user earlier stands before its refund statement
RefundPendingOnUsedCode ==
  \E r, m \in BagToSet(reqs) :
    /\ r.op = "CancelRedeem" /\ r.pc = "updateUserPoints"
    /\ m.op = "MarkDiscountUsed" /\ m.pc = "done" /\ m.res.status = "ok"
    /\ m.a.usedCode = r.user.last_discount_code
    /\ m.user.user_id = r.user.user_id
    /\ Slot(users[r.user.user_id]) = EmptySlot
    /\ users[r.user.user_id].points = r.user.points

\* a purchase listing the code has returned, the marker of the use is in the
\* log, and a CancelRedeem that read the user earlier stands before its
\* refund statement
RefundPendingOnPurchasedCode ==
  \E r, m \in BagToSet(reqs) :
    /\ r.op = "CancelRedeem" /\ r.pc = "updateUserPoints"
    /\ m.op = "ProcessPurchase" /\ m.pc = "done" /\ m.res.status = "ok"
    /\ Lists(m.a.discountCodes, r.user.last_discount_code)
    /\ ActionsOfType(user_actions, r.user.user_id, "discount_tier_used") # {}
    /\ Slot(users[r.user.user_id]) = EmptySlot

(***************************************************************************)
(* C36. Between operations, each user's referral counter is the number of  *)
(* referral_first_purchase_bonus Actions recorded for that user; so a      *)
(* MilestoneRedeem passes the gate (counter >= threshold) and succeeds     *)
(* only for a user with at least that many such Actions.                   *)
(***************************************************************************)
BonusesOf(log, uid) == ActionsOfType(log, uid, "referral_first_purchase_bonus")

CounterIsBonusCount ==
  \A i \in Rows : users[i].referral_count = Cardinality(BonusesOf(user_actions, i))

C36_CounterMatchesBonuses ==
  /\ []CounterIsBonusCount
  /\ [][\A i \in Rows :
          (/\ Operation("MilestoneRedeem")
           /\ last'.a.email = users[i].email
           /\ last'.res.status = "ok")
          => /\ last'.a.milestonePoints \in {5, 10, 15}
             /\ Cardinality(BonusesOf(user_actions, i)) >= last'.a.milestonePoints
       ]_vars

\* a sixth first purchase through the link of a user with five bonuses: the
\* counter and the bonus Actions are at six
C36_Witness ==
  /\ last.op = "ProcessPurchase" /\ last.res.status = "ok"
  /\ last.res.referrerBonus
  /\ \E i \in SeedRows :
       /\ last.other.user_id = i
       /\ seed.users[i].referral_count = 5
       /\ users[i].referral_count = 6
       /\ Cardinality(BonusesOf(user_actions, i)) = 6

\* a user with five bonus Actions redeemed the milestone of five
MilestoneOfFiveRedeemed ==
  /\ last.op = "MilestoneRedeem" /\ last.res.status = "ok"
  /\ last.a.milestonePoints = 5
  /\ \E i \in RowOf(last.a.email) :
       /\ users[i].referral_count = 5
       /\ Cardinality(BonusesOf(user_actions, i)) = 5

\* The same when requests overlap: whenever all of them have returned, the
\* counter is the number of bonus Actions (the increment is relative and is
\* followed by the INSERT of the Action)
CounterIsBonusCountAtRest == InFlight = {} => CounterIsBonusCount

(***************************************************************************)
(* SpecLedger: overlapping MilestoneRedeem requests for a user who has     *)
(* reached two thresholds.                                                 *)
(***************************************************************************)
MaxRedeems == 3    \* MilestoneRedeem requests in one behaviour of SpecLedger

\* ... and five more customers signed up with a@x's link and paid a first
\* order: a@x has referral_count 10
MoreReferred == <<"h@x", "i@x", "j@x", "k@x", "l@x">>
MoreReferredCodes == <<"R8", "R9", "R10", "R11", "R12">>

TenReferrals ==
  RunAll(FiveReferrals,
    [k \in 1..5 |->
       NewReq("Signup", [email |-> MoreReferred[k], referredBy |-> "R1",
                         referralCode |-> MoreReferredCodes[k], fail |-> TRUE])]
    \o [k \in 1..5 |->
          NewReq("ProcessPurchase", [email |-> MoreReferred[k], orderTotal |-> 2050,
                                     orderId |-> 1, totalSpent |-> 0,
                                     discountCodes |-> <<>>])])

InitLedger ==
  /\ seed = TenReferrals
  /\ users = seed.users
  /\ user_actions = seed.user_actions
  /\ discounts = seed.discounts
  /\ reqs = EmptyBag
  /\ last = NoReq
  /\ nops = 0
  /\ rt = NoRedeem
  /\ call = NoCall

\* POST /api/referral/redeem-milestone: the handler starts
IssueMilestoneRedeem ==
  /\ nops < MaxRedeems
  /\ \E r \in MilestoneRedeemRequests :
       /\ r.a.milestonePoints \in MILESTONE_REWARDS
       /\ reqs' = reqs (+) SetToBag({Call(World, r)})
  /\ nops' = nops + 1
  /\ UNCHANGED <<users, user_actions, discounts, last, seed, rt, call>>

NextLedger ==
  \/ IssueMilestoneRedeem
  \/ MilestoneRedeemStep

SpecLedger == InitLedger /\ [][NextLedger]_vars

(***************************************************************************)
(* C37. The milestone ledger of a user only grows: an entry (threshold,    *)
(* code) that is recorded stays recorded in every later state, also when   *)
(* MilestoneRedeem calls for two thresholds of the user overlap; so a      *)
(* MilestoneRedeem for a threshold that was redeemed is never issued a     *)
(* discount again.                                                         *)
(***************************************************************************)
Ledger(i) == users[i].referal_discount_code

\* the MilestoneRedeems of threshold m for the email that were issued a code
Rewarded(email, m) ==
  {r \in RequestsOf("MilestoneRedeem", email) :
     /\ r.a.milestonePoints = m
     /\ r.pc = "updateMilestoneDiscountCodes" \/ (r.pc = "done" /\ r.res.status = "ok")}

C37_LedgerOnlyGrows ==
  [][\A i \in Rows : \A e \in Ledger(i) : e \in users'[i].referal_discount_code
    ]_vars

\* What holds: the statement that saves the ledger stores the ledger the
\* request read at its start plus its own entry, and nothing else changes
\* a ledger
LedgerSavedFromOwnRead ==
  [][\A i \in Rows :
       users'[i].referal_discount_code # Ledger(i)
       => \E r \in BagToSet(reqs) :
            /\ r.op = "MilestoneRedeem" /\ r.pc = "updateMilestoneDiscountCodes"
            /\ Executes(r)
            /\ r.user.user_id = i
            /\ users'[i].referal_discount_code
                 = {e \in r.user.referal_discount_code : e[1] # r.a.milestonePoints}
                     \cup {<<r.a.milestonePoints, r.code>>}
    ]_vars

\* the rewards of 5 and of 10 were both issued, and the ledger records only
\* the one of 10
LedgerEntryLost ==
  \E i \in SeedRows :
    /\ InFlight = {}
    /\ Rewarded(users[i].email, 5) # {}
    /\ Rewarded(users[i].email, 10) # {}
    /\ LedgerCodes(Ledger(i), 5) = {}
    /\ LedgerCodes(Ledger(i), 10) # {}

\* the reward of 5 was issued twice to one user
ThresholdRedeemedTwice ==
  \E i \in SeedRows :
    /\ InFlight = {}
    /\ Copies(Rewarded(users[i].email, 5)) = 2
    /\ Copies(Rewarded(users[i].email, 10)) = 1
    /\ Len(discounts) = Len(seed.discounts) + 3

(***************************************************************************)
(* C38. For every Redeem that succeeds, whatever pointsToRedeem and        *)
(* redeemValue the caller sent, the points that the Code Parser reads back *)
(* from the minted code (its dollar value x 100) are at most the           *)
(* pointsToRedeem deducted from the balance.                               *)
(***************************************************************************)
C38_CodeWorthAtMostDeducted ==
  [][\A i \in Rows :
       (/\ Operation("Redeem")
        /\ last'.a.email = users[i].email
        /\ last'.res.status = "ok")
       => /\ users'[i].points = users[i].points - last'.a.pointsToRedeem
          /\ parseDiscountTierFromCode(last'.res.discountCode)
               <= last'.a.pointsToRedeem
    ]_vars

\* What holds: pointsToRedeem is deducted; with redeemValue 'dynamic' the
\* code is worth exactly the points deducted; with any other redeemValue it
\* is worth 100 points per dollar of the digits of redeemValue, whatever
\* was deducted
CodeWorthFollowsRedeemValue ==
  [][\A i \in Rows :
       (/\ Operation("Redeem")
        /\ last'.a.email = users[i].email
        /\ last'.res.status = "ok")
       => LET worth == parseDiscountTierFromCode(last'.res.discountCode)
          IN /\ users'[i].points = users[i].points - last'.a.pointsToRedeem
             /\ last'.a.redeemValue = Dynamic => worth = last'.a.pointsToRedeem
             /\ last'.a.redeemValue = <<"5">> => worth = 500
    ]_vars

\* 5 points were deducted for a code of 5 dollars
FiveDollarsForFivePoints ==
  /\ last.op = "Redeem" /\ last.res.status = "ok"
  /\ last.a.pointsToRedeem = 5
  /\ last.a.redeemValue = <<"5">>
  /\ last.res.discountCode = [kind |-> "POINTS", value |-> 500, id |-> Len(discounts)]
  /\ \E i \in RowOf(last.a.email) : users[i].points = last.user.points - 5

(***************************************************************************)
(* SpecDelivery: the shop's order-paid notifications, delivered at least   *)
(* once.  A delivery runs processPurchase to completion, or up to an await *)
(* of the database that rejects: the error leaves processPurchase, which   *)
(* catches nothing, and the statements already executed stay executed.     *)
(* The shop delivers a notification again after a failed delivery.         *)
(***************************************************************************)
MaxDeliveries == 2   \* deliveries in one behaviour of SpecDelivery

\* the awaits of processPurchase that are statements of the database
FailurePoints ==
  {"findUserByEmail", "findActionByUserAndRef", "findPurchaseActions",
   "updateUserTier", "updateUserPoints", "createAction",
   "used.findUserByDiscountCode", "used.clearUserDiscountCodeById",
   "used.createAction", "bonus.findUserByReferralCode",
   "bonus.updateUserPointsById", "bonus.incrementReferralCount",
   "bonus.createAction"}

NoFailure == "none"

\* the handler of request r run until it returns or throws, the await named
\* at rejecting
RECURSIVE RunFailingAt(_, _, _)
RunFailingAt(w, r, at) ==
  IF r.pc = "done" THEN [w |-> w, r |-> r]
  ELSE IF r.pc = at THEN Throw(w, r, "Connection terminated unexpectedly")
  ELSE CHOOSE out \in {RunFailingAt(s.w, s.r, at) : s \in {Step(w, r)}} : TRUE

Delivery(r, at) ==
  /\ \E out \in {RunFailingAt(World, r, at)} :
       /\ users' = out.w.users
       /\ user_actions' = out.w.user_actions
       /\ discounts' = out.w.discounts
       /\ last' = out.r
  /\ nops' = nops + 1
  /\ UNCHANGED <<reqs, seed, rt, call>>

\* POST /api/shopify/order-paid for an order, with or without a failure
Deliver ==
  /\ nops < MaxDeliveries
  /\ \E r \in ProcessPurchaseRequests(World) :
       \E at \in FailurePoints \cup {NoFailure} : Delivery(r, at)

\* the notification of the delivery that failed, delivered again; it fails
\* again at most until MaxDeliveries
Redeliver ==
  /\ last.op = "ProcessPurchase" /\ last.res.status = "error"
  /\ \E at \in (IF nops < MaxDeliveries THEN FailurePoints ELSE {})
                 \cup {NoFailure} :
       Delivery(NewReq("ProcessPurchase", last.a), at)

NextDelivery ==
  \/ Deliver
  \/ Redeliver

SpecDelivery == Init /\ [][NextDelivery]_vars

(***************************************************************************)
(* C39. Under at-least-once delivery the referrer's bonus of a first       *)
(* purchase is applied in the end: when a delivery of an order of a        *)
(* referred user failed after the purchase Action was recorded and before  *)
(* the bonus was applied, the next delivery of that order that does not    *)
(* fail applies the bonus - and empties the slot of the holder of a reward *)
(* code the order lists - instead of being skipped.                        *)
(***************************************************************************)
\* the last delivery recorded the purchase of user i, the first one, and
\* failed before the bonus of i's referrer was applied
BonusOwed(i) ==
  /\ last.op = "ProcessPurchase" /\ last.res.status = "error"
  /\ last.user.user_id = i
  /\ last.first
  /\ ActionsOfOrder(user_actions, i, last.a.orderId) # {}
  /\ ReferrersOf(i) # {}
  /\ BonusesFor(user_actions, i) = {}
  /\ last.pc = "done"

\* this step is a delivery of the same notification that does not fail
Replayed ==
  /\ nops' = nops + 1
  /\ last'.a = last.a
  /\ last'.res.status # "error"

C39_ReplayAppliesBonus ==
  [][\A i \in Rows :
       (BonusOwed(i) /\ Replayed)
       => /\ last'.res.status = "ok"
          /\ BonusesFor(user_actions', i) # {}
          /\ \A h \in HoldersListed(last.a.discountCodes) :
               Slot(users'[h]) = EmptySlot
    ]_vars

\* What holds: the replay is skipped as already processed and changes
\* nothing, and no delivery whatever takes the state out of BonusOwed's
\* missing bonus: no bonus Action for purchases of user i is ever appended
ReplaySkipped ==
  [][\A i \in Rows :
       /\ (BonusOwed(i) /\ Replayed)
            => /\ last'.res = [status |-> "skipped",
                               reason |-> "Order already processed"]
               /\ users' = users /\ user_actions' = user_actions
               /\ discounts' = discounts
       /\ (PurchasesOf(user_actions, i) # {} /\ BonusesFor(user_actions, i) = {})
            => BonusesFor(user_actions', i) = {}
    ]_vars

\* the order of a referred user was recorded, the delivery failed before
\* the bonus, the replay was skipped: purchase Action, no bonus Action, the
\* referrer's balance and counter as at the start
BonusNeverApplied ==
  /\ last.op = "ProcessPurchase"
  /\ last.res = [status |-> "skipped", reason |-> "Order already processed"]
  /\ nops = 2
  /\ \E i \in RowOf(last.a.email) : \E j \in ReferrersOf(i) :
       /\ j # i
       /\ seed.user_actions = <<>> \/ PurchasesOf(seed.user_actions, i) = {}
       /\ Cardinality(PurchasesOf(user_actions, i)) = 1
       /\ BonusesFor(user_actions, i) = {}
       /\ users[j].points = seed.users[j].points
       /\ users[j].referral_count = seed.users[j].referral_count

(***************************************************************************)
(* C40. ProcessPurchase calls for two different orders of one referred     *)
(* user who has no purchase Action yet, overlapping in any way, no other   *)
(* request running: the referrer's first-purchase bonus is granted at most *)
(* once - at most one bonus Action for purchases of that user, the         *)
(* referrer's counter raised by at most 1 and the referrer's balance by at *)
(* most 1500.                                                              *)
(***************************************************************************)
\* the requests are purchases of the email, each for another order
OnlyPurchasesOf(email) ==
  /\ nops > 0
  /\ \A r \in BagToSet(reqs) :
       /\ r.op = "ProcessPurchase" /\ r.a.email = email
       /\ CopiesIn(r, reqs) = 1
  /\ \A r1, r2 \in BagToSet(reqs) : r1 # r2 => r1.a.orderId # r2.a.orderId

\* user i is referred by another user and has not purchased
FirstPurchaseAhead(i) ==
  /\ PurchasesOf(seed.user_actions, i) = {}
  /\ ReferrersOf(i) # {}
  /\ i \notin ReferrersOf(i)

C40_BonusOnceAcrossOrders ==
  \A i \in SeedRows :
    (OnlyPurchasesOf(users[i].email) /\ FirstPurchaseAhead(i))
    => \A j \in ReferrersOf(i) :
         /\ Cardinality(BonusesFor(user_actions, i)) <= 1
         /\ users[j].referral_count <= seed.users[j].referral_count + 1
         /\ users[j].points <= seed.users[j].points + 1500

\* What holds: a bonus is granted once by each call that found no purchase
\* Action when it looked, and by no other
BonusPerFirstReader ==
  \A i \in SeedRows :
    (OnlyPurchasesOf(users[i].email) /\ FirstPurchaseAhead(i) /\ InFlight = {})
    => \A j \in ReferrersOf(i) :
         LET firsts == Copies({r \in BagToSet(reqs) : r.first})
         IN /\ Cardinality(BonusesFor(user_actions, i)) = firsts
            /\ users[j].referral_count = seed.users[j].referral_count + firsts
            /\ users[j].points <= seed.users[j].points + 1500 * firsts
            /\ firsts >= 1

\* orders 1 and 2 of a referred user were both taken for the first
\* purchase: two bonus Actions, the counter raised by 2, the balance by 3000
DoubleBonus ==
  \E i \in SeedRows :
    /\ OnlyPurchasesOf(users[i].email) /\ FirstPurchaseAhead(i) /\ Quiescent
    /\ ActionsOfOrder(user_actions, i, 1) # {}
    /\ ActionsOfOrder(user_actions, i, 2) # {}
    /\ \E j \in ReferrersOf(i) :
         /\ Cardinality(BonusesFor(user_actions, i)) = 2
         /\ users[j].referral_count = seed.users[j].referral_count + 2
         /\ users[j].points = seed.users[j].points + 3000

====
